---------------------------- MODULE Spec2Model ----------------------------
(***************************************************************************)
(* A model of the document-structure extraction layer of step-translate   *)
(* (src/app/parsers.py) and of the upload handler that calls it            *)
(* (src/app/main.py, upload_document).                                     *)
(*                                                                         *)
(* Python strings are modelled as sequences of characters, so that         *)
(* splitting, whitespace normalisation, stripping, suffix extraction and   *)
(* lower-casing are computed character by character.  A character up to    *)
(* U+00FF is the one-character string holding it; the grave accent, which  *)
(* a TLA+ string cannot hold, and every character from U+0100 on are the   *)
(* string "U+" followed by the code point in upper-case hexadecimal, four  *)
(* digits at least ("U+0060", "U+2003", "U+10400").                        *)
(***************************************************************************)
EXTENDS Integers, Sequences, FiniteSets, TLC

(***************************************************************************)
(* Bounds of the model (not program constants).                            *)
(***************************************************************************)
\* Largest number of text pieces a modelled TXT file is assembled from.
MaxParas == 3
\* Largest number of blocks of a modelled PDF document.
MaxBlocks == 2
\* Largest number of paragraphs of a modelled DOCX document.
MaxDocxParas == 3
\* Largest number of uploads the server handles in one run.
MaxUploads == 2

(***************************************************************************)
(* Program constants.                                                      *)
(***************************************************************************)
\* parsers.py:23  _split_into_paragraphs(text, min_length=5)
min_length == 5
\* parsers.py:49  i == 0 and len(p) < 100
TxtTitleLen == 100
\* parsers.py:51  i == 1 and len(p) < 80
TxtAuthorLen == 80

\* parsers.py:81  normal_size = 12 when the document has no text
DefaultNormalSize == 12
\* parsers.py:106  flags & 16: the bold bit of a span's flags
BoldFlag == 16
\* parsers.py:114  len(block_text) < 3: blocks this short are skipped
PdfMinLen == 3
\* parsers.py:121  size_ratio >= 1.5, in tenths
TitleRatioX10 == 15
\* parsers.py:123  size_ratio >= 1.2, in tenths
HeadingRatioX10 == 12
\* parsers.py:125  len(block_text) < 100
PdfShortLen == 100
\* parsers.py:167  not passages and len(cleaned) < 80
DocxAuthorLen == 80
\* parsers.py:173  len(cleaned) > 5
DocxMinLen == 5
\* main.py:97  MAX_UPLOAD_MB, when the environment does not set it
MAX_UPLOAD_MB == 50
\* CPython's set (Objects/setobject.c): the slots of the hash table of a new
\* set (PySet_MINSIZE), PERTURB_SHIFT, LINEAR_PROBES, and the number of keys
\* above which a resize doubles instead of quadrupling.
SetSlots == 8
PerturbShift == 5
LinearProbes == 9
SetGrowSlowly == 50000

\* Python's None.
None == "None"

(***************************************************************************)
(* Strings.                                                                *)
(***************************************************************************)
\* n copies of the character c (used to build inputs of a given length).
Rep(c, n) == [k \in 1..n |-> c]

\* Concatenation of a sequence of strings.
RECURSIVE Concat(_)
Concat(ss) == IF ss = <<>> THEN <<>> ELSE Head(ss) \o Concat(Tail(ss))

\* The whitespace of Python 3 str: the characters str.isspace() accepts, which
\* are the ones str.strip() removes and the regex class \s matches in a str
\* pattern.  First line: space, TAB, LF, CR, FF; second line, written raw:
\* VT (U+000B), FS, GS, RS, US (U+001C..U+001F), NEL (U+0085), NBSP (U+00A0);
\* then the Unicode spaces and the line and paragraph separators.
isspace(c) ==
    c \in
    {" ", "\t", "\n", "\r", "\f",
     "", "", "", "", "", "", " ",
     "U+1680", "U+2000", "U+2001", "U+2002", "U+2003", "U+2004", "U+2005",
     "U+2006", "U+2007", "U+2008", "U+2009", "U+200A", "U+2028", "U+2029",
     "U+202F", "U+205F", "U+3000"}

NotDropped(c) == c # ""

\* A substitution that leaves the string as it is.
re_sub_ws_unchanged(s) == s

\* re.sub(r'\s+', ' ', s): every maximal run of whitespace becomes one space.
re_sub_ws(s) ==
    SelectSeq([k \in 1..Len(s) |->
                  IF isspace(s[k])
                  THEN (IF k > 1 /\ isspace(s[k-1]) THEN "" ELSE " ")
                  ELSE s[k]],
              NotDropped)

RECURSIVE first_non_space(_, _)
first_non_space(s, k) ==
    IF k > Len(s) \/ ~isspace(s[k]) THEN k ELSE first_non_space(s, k + 1)

RECURSIVE last_non_space(_, _)
last_non_space(s, k) ==
    IF k < 1 \/ ~isspace(s[k]) THEN k ELSE last_non_space(s, k - 1)

\* str.strip(): leading and trailing whitespace removed.
strip_nothing(s) == s

strip(s) == SubSeq(s, first_non_space(s, 1), last_non_space(s, Len(s)))

\* The cleaning idiom of all three strategies: re.sub(r'\s+', ' ', s).strip()
clean(s) == strip(re_sub_ws(s))

SetMin(S) == CHOOSE x \in S : \A y \in S : x <= y
SetMax(S) == CHOOSE x \in S : \A y \in S : x >= y

\* The end of the leftmost match of r'\n\s*\n' that starts at the newline f:
\* \s* is greedy, so the match runs to the last newline that only whitespace
\* separates from f; 0 when there is no match at f.
para_break_end(s, f) ==
    LET ends == {l \in f+1..Len(s) :
                    s[l] = "\n" /\ \A m \in f..l : isspace(s[m])}
    IN  IF ends = {} THEN 0 ELSE SetMax(ends)

\* re.split(r'\n\s*\n', s), scanning from position p; start is where the
\* current piece began.
RECURSIVE re_split_from(_, _)
re_split_from(s, start) ==
    LET starts == {f \in start..Len(s) :
                      s[f] = "\n" /\ para_break_end(s, f) # 0}
    IN  IF starts = {}
        THEN <<SubSeq(s, start, Len(s))>>
        ELSE LET f == SetMin(starts)
             IN  <<SubSeq(s, start, f - 1)>>
                     \o re_split_from(s, para_break_end(s, f) + 1)

re_split_paragraphs(s) == re_split_from(s, 1)

\* Path.read_text(encoding='utf-8', errors='replace') opens the file in text
\* mode with universal newlines: "\r\n" and a lone "\r" are read as "\n".
read_text(bytes) ==
    SelectSeq([k \in 1..Len(bytes) |->
                  IF bytes[k] = "\r" THEN "\n"
                  ELSE IF bytes[k] = "\n" /\ k > 1 /\ bytes[k-1] = "\r" THEN ""
                  ELSE bytes[k]],
              NotDropped)

(***************************************************************************)
(* Lower-casing: str.lower().                                              *)
(***************************************************************************)
\* The characters U+0001..U+00FF in the order of their code points.
Latin1 ==
    <<"", "", "", "", "", "", "", "",
      "\t", "\n", "", "\f", "\r", "", "", "",
      "", "", "", "", "", "", "", "",
      "", "", "", "", "", "", "", " ",
      "!", "\"", "#", "$", "%", "&", "'", "(",
      ")", "*", "+", ",", "-", ".", "/", "0",
      "1", "2", "3", "4", "5", "6", "7", "8",
      "9", ":", ";", "<", "=", ">", "?", "@",
      "A", "B", "C", "D", "E", "F", "G", "H",
      "I", "J", "K", "L", "M", "N", "O", "P",
      "Q", "R", "S", "T", "U", "V", "W", "X",
      "Y", "Z", "[", "\\", "]", "^", "_", "U+0060",
      "a", "b", "c", "d", "e", "f", "g", "h",
      "i", "j", "k", "l", "m", "n", "o", "p",
      "q", "r", "s", "t", "u", "v", "w", "x",
      "y", "z", "{", "|", "}", "~", "", "",
      "", "", "", "", "", "", "", "",
      "", "", "", "", "", "", "", "",
      "", "", "", "", "", "", "", "",
      "", "", "", "", "", "", "", " ",
      "¡", "¢", "£", "¤", "¥", "¦", "§", "¨",
      "©", "ª", "«", "¬", "­", "®", "¯", "°",
      "±", "²", "³", "´", "µ", "¶", "·", "¸",
      "¹", "º", "»", "¼", "½", "¾", "¿", "À",
      "Á", "Â", "Ã", "Ä", "Å", "Æ", "Ç", "È",
      "É", "Ê", "Ë", "Ì", "Í", "Î", "Ï", "Ð",
      "Ñ", "Ò", "Ó", "Ô", "Õ", "Ö", "×", "Ø",
      "Ù", "Ú", "Û", "Ü", "Ý", "Þ", "ß", "à",
      "á", "â", "ã", "ä", "å", "æ", "ç", "è",
      "é", "ê", "ë", "ì", "í", "î", "ï", "ð",
      "ñ", "ò", "ó", "ô", "õ", "ö", "÷", "ø",
      "ù", "ú", "û", "ü", "ý", "þ", "ÿ">>

HexDigits == <<"0", "1", "2", "3", "4", "5", "6", "7",
               "8", "9", "A", "B", "C", "D", "E", "F">>

\* The number the hexadecimal digits h (a TLA+ string) write, after acc.
RECURSIVE hex_value(_, _)
hex_value(h, acc) ==
    IF h = "" THEN acc
    ELSE hex_value(SubSeq(h, 2, Len(h)),
                   acc * 16 + (CHOOSE n \in 0..15 : HexDigits[n + 1] = SubSeq(h, 1, 1)))

RECURSIVE hex_digits(_)
hex_digits(n) ==
    IF n < 16 THEN HexDigits[n + 1]
    ELSE hex_digits(n \div 16) \o HexDigits[(n % 16) + 1]

\* ord(c): the code point of a character; -1 for a string that is no
\* character of the model.
ord(c) ==
    IF Len(c) > 1 THEN hex_value(SubSeq(c, 3, Len(c)), 0)
    ELSE IF \E n \in 1..255 : Latin1[n] = c
    THEN CHOOSE n \in 1..255 : Latin1[n] = c
    ELSE -1

\* chr(n): the character of a code point.
chr(n) ==
    IF n \in 1..255 THEN Latin1[n]
    ELSE "U+" \o (IF n < \h10 THEN "000" ELSE IF n < \h100 THEN "00"
                  ELSE IF n < \h1000 THEN "0" ELSE "") \o hex_digits(n)

\* The simple lower-case mappings of the Unicode database of Python 3.11
\* (Unicode 14): <<first, last, step, delta>> says that every step-th code
\* point n from first to last lowers to n + delta.
LowerRanges ==
    <<
      <<\h0041, \h005A, 1, 32>>, <<\h00C0, \h00D6, 1, 32>>, <<\h00D8,
      \h00DE, 1, 32>>, <<\h0100, \h012E, 2, 1>>, <<\h0132, \h0136, 2, 1>>,
      <<\h0139, \h0147, 2, 1>>, <<\h014A, \h0176, 2, 1>>, <<\h0178, \h0178,
      1, -121>>, <<\h0179, \h017D, 2, 1>>, <<\h0181, \h0181, 1, 210>>,
      <<\h0182, \h0184, 2, 1>>, <<\h0186, \h0186, 1, 206>>, <<\h0187,
      \h0187, 1, 1>>, <<\h0189, \h018A, 1, 205>>, <<\h018B, \h018B, 1, 1>>,
      <<\h018E, \h018E, 1, 79>>, <<\h018F, \h018F, 1, 202>>, <<\h0190,
      \h0190, 1, 203>>, <<\h0191, \h0191, 1, 1>>, <<\h0193, \h0193, 1,
      205>>, <<\h0194, \h0194, 1, 207>>, <<\h0196, \h0196, 1, 211>>,
      <<\h0197, \h0197, 1, 209>>, <<\h0198, \h0198, 1, 1>>, <<\h019C,
      \h019C, 1, 211>>, <<\h019D, \h019D, 1, 213>>, <<\h019F, \h019F, 1,
      214>>, <<\h01A0, \h01A4, 2, 1>>, <<\h01A6, \h01A6, 1, 218>>, <<\h01A7,
      \h01A7, 1, 1>>, <<\h01A9, \h01A9, 1, 218>>, <<\h01AC, \h01AC, 1, 1>>,
      <<\h01AE, \h01AE, 1, 218>>, <<\h01AF, \h01AF, 1, 1>>, <<\h01B1,
      \h01B2, 1, 217>>, <<\h01B3, \h01B5, 2, 1>>, <<\h01B7, \h01B7, 1,
      219>>, <<\h01B8, \h01B8, 1, 1>>, <<\h01BC, \h01BC, 1, 1>>, <<\h01C4,
      \h01C4, 1, 2>>, <<\h01C5, \h01C5, 1, 1>>, <<\h01C7, \h01C7, 1, 2>>,
      <<\h01C8, \h01C8, 1, 1>>, <<\h01CA, \h01CA, 1, 2>>, <<\h01CB, \h01DB,
      2, 1>>, <<\h01DE, \h01EE, 2, 1>>, <<\h01F1, \h01F1, 1, 2>>, <<\h01F2,
      \h01F4, 2, 1>>, <<\h01F6, \h01F6, 1, -97>>, <<\h01F7, \h01F7, 1,
      -56>>, <<\h01F8, \h021E, 2, 1>>, <<\h0220, \h0220, 1, -130>>,
      <<\h0222, \h0232, 2, 1>>, <<\h023A, \h023A, 1, 10795>>, <<\h023B,
      \h023B, 1, 1>>, <<\h023D, \h023D, 1, -163>>, <<\h023E, \h023E, 1,
      10792>>, <<\h0241, \h0241, 1, 1>>, <<\h0243, \h0243, 1, -195>>,
      <<\h0244, \h0244, 1, 69>>, <<\h0245, \h0245, 1, 71>>, <<\h0246,
      \h024E, 2, 1>>, <<\h0370, \h0372, 2, 1>>, <<\h0376, \h0376, 1, 1>>,
      <<\h037F, \h037F, 1, 116>>, <<\h0386, \h0386, 1, 38>>, <<\h0388,
      \h038A, 1, 37>>, <<\h038C, \h038C, 1, 64>>, <<\h038E, \h038F, 1, 63>>,
      <<\h0391, \h03A1, 1, 32>>, <<\h03A4, \h03AB, 1, 32>>, <<\h03CF,
      \h03CF, 1, 8>>, <<\h03D8, \h03EE, 2, 1>>, <<\h03F4, \h03F4, 1, -60>>,
      <<\h03F7, \h03F7, 1, 1>>, <<\h03F9, \h03F9, 1, -7>>, <<\h03FA, \h03FA,
      1, 1>>, <<\h03FD, \h03FF, 1, -130>>, <<\h0400, \h040F, 1, 80>>,
      <<\h0410, \h042F, 1, 32>>, <<\h0460, \h0480, 2, 1>>, <<\h048A, \h04BE,
      2, 1>>, <<\h04C0, \h04C0, 1, 15>>, <<\h04C1, \h04CD, 2, 1>>, <<\h04D0,
      \h052E, 2, 1>>, <<\h0531, \h0556, 1, 48>>, <<\h10A0, \h10C5, 1,
      7264>>, <<\h10C7, \h10C7, 1, 7264>>, <<\h10CD, \h10CD, 1, 7264>>,
      <<\h13A0, \h13EF, 1, 38864>>, <<\h13F0, \h13F5, 1, 8>>, <<\h1C90,
      \h1CBA, 1, -3008>>, <<\h1CBD, \h1CBF, 1, -3008>>, <<\h1E00, \h1E94, 2,
      1>>, <<\h1E9E, \h1E9E, 1, -7615>>, <<\h1EA0, \h1EFE, 2, 1>>, <<\h1F08,
      \h1F0F, 1, -8>>, <<\h1F18, \h1F1D, 1, -8>>, <<\h1F28, \h1F2F, 1, -8>>,
      <<\h1F38, \h1F3F, 1, -8>>, <<\h1F48, \h1F4D, 1, -8>>, <<\h1F59,
      \h1F5F, 2, -8>>, <<\h1F68, \h1F6F, 1, -8>>, <<\h1F88, \h1F8F, 1, -8>>,
      <<\h1F98, \h1F9F, 1, -8>>, <<\h1FA8, \h1FAF, 1, -8>>, <<\h1FB8,
      \h1FB9, 1, -8>>, <<\h1FBA, \h1FBB, 1, -74>>, <<\h1FBC, \h1FBC, 1,
      -9>>, <<\h1FC8, \h1FCB, 1, -86>>, <<\h1FCC, \h1FCC, 1, -9>>, <<\h1FD8,
      \h1FD9, 1, -8>>, <<\h1FDA, \h1FDB, 1, -100>>, <<\h1FE8, \h1FE9, 1,
      -8>>, <<\h1FEA, \h1FEB, 1, -112>>, <<\h1FEC, \h1FEC, 1, -7>>,
      <<\h1FF8, \h1FF9, 1, -128>>, <<\h1FFA, \h1FFB, 1, -126>>, <<\h1FFC,
      \h1FFC, 1, -9>>, <<\h2126, \h2126, 1, -7517>>, <<\h212A, \h212A, 1,
      -8383>>, <<\h212B, \h212B, 1, -8262>>, <<\h2132, \h2132, 1, 28>>,
      <<\h2160, \h216F, 1, 16>>, <<\h2183, \h2183, 1, 1>>, <<\h24B6, \h24CF,
      1, 26>>, <<\h2C00, \h2C2F, 1, 48>>, <<\h2C60, \h2C60, 1, 1>>,
      <<\h2C62, \h2C62, 1, -10743>>, <<\h2C63, \h2C63, 1, -3814>>, <<\h2C64,
      \h2C64, 1, -10727>>, <<\h2C67, \h2C6B, 2, 1>>, <<\h2C6D, \h2C6D, 1,
      -10780>>, <<\h2C6E, \h2C6E, 1, -10749>>, <<\h2C6F, \h2C6F, 1,
      -10783>>, <<\h2C70, \h2C70, 1, -10782>>, <<\h2C72, \h2C72, 1, 1>>,
      <<\h2C75, \h2C75, 1, 1>>, <<\h2C7E, \h2C7F, 1, -10815>>, <<\h2C80,
      \h2CE2, 2, 1>>, <<\h2CEB, \h2CED, 2, 1>>, <<\h2CF2, \h2CF2, 1, 1>>,
      <<\hA640, \hA66C, 2, 1>>, <<\hA680, \hA69A, 2, 1>>, <<\hA722, \hA72E,
      2, 1>>, <<\hA732, \hA76E, 2, 1>>, <<\hA779, \hA77B, 2, 1>>, <<\hA77D,
      \hA77D, 1, -35332>>, <<\hA77E, \hA786, 2, 1>>, <<\hA78B, \hA78B, 1,
      1>>, <<\hA78D, \hA78D, 1, -42280>>, <<\hA790, \hA792, 2, 1>>,
      <<\hA796, \hA7A8, 2, 1>>, <<\hA7AA, \hA7AA, 1, -42308>>, <<\hA7AB,
      \hA7AB, 1, -42319>>, <<\hA7AC, \hA7AC, 1, -42315>>, <<\hA7AD, \hA7AD,
      1, -42305>>, <<\hA7AE, \hA7AE, 1, -42308>>, <<\hA7B0, \hA7B0, 1,
      -42258>>, <<\hA7B1, \hA7B1, 1, -42282>>, <<\hA7B2, \hA7B2, 1,
      -42261>>, <<\hA7B3, \hA7B3, 1, 928>>, <<\hA7B4, \hA7C2, 2, 1>>,
      <<\hA7C4, \hA7C4, 1, -48>>, <<\hA7C5, \hA7C5, 1, -42307>>, <<\hA7C6,
      \hA7C6, 1, -35384>>, <<\hA7C7, \hA7C9, 2, 1>>, <<\hA7D0, \hA7D0, 1,
      1>>, <<\hA7D6, \hA7D8, 2, 1>>, <<\hA7F5, \hA7F5, 1, 1>>, <<\hFF21,
      \hFF3A, 1, 32>>, <<\h10400, \h10427, 1, 40>>, <<\h104B0, \h104D3, 1,
      40>>, <<\h10570, \h1057A, 1, 39>>, <<\h1057C, \h1058A, 1, 39>>,
      <<\h1058C, \h10592, 1, 39>>, <<\h10594, \h10595, 1, 39>>, <<\h10C80,
      \h10CB2, 1, 64>>, <<\h118A0, \h118BF, 1, 32>>, <<\h16E40, \h16E5F, 1,
      32>>, <<\h1E900, \h1E921, 1, 34>> >>

\* The code points with the property Cased, as ranges <<first, last>>.
CasedRanges ==
    <<
      <<\h0041, \h005A>>, <<\h0061, \h007A>>, <<\h00AA, \h00AA>>, <<\h00B5,
      \h00B5>>, <<\h00BA, \h00BA>>, <<\h00C0, \h00D6>>, <<\h00D8, \h00F6>>,
      <<\h00F8, \h01BA>>, <<\h01BC, \h01BF>>, <<\h01C4, \h0293>>, <<\h0295,
      \h02B8>>, <<\h02C0, \h02C1>>, <<\h02E0, \h02E4>>, <<\h0345, \h0345>>,
      <<\h0370, \h0373>>, <<\h0376, \h0377>>, <<\h037A, \h037D>>, <<\h037F,
      \h037F>>, <<\h0386, \h0386>>, <<\h0388, \h038A>>, <<\h038C, \h038C>>,
      <<\h038E, \h03A1>>, <<\h03A3, \h03F5>>, <<\h03F7, \h0481>>, <<\h048A,
      \h052F>>, <<\h0531, \h0556>>, <<\h0560, \h0588>>, <<\h10A0, \h10C5>>,
      <<\h10C7, \h10C7>>, <<\h10CD, \h10CD>>, <<\h10D0, \h10FA>>, <<\h10FD,
      \h10FF>>, <<\h13A0, \h13F5>>, <<\h13F8, \h13FD>>, <<\h1C80, \h1C88>>,
      <<\h1C90, \h1CBA>>, <<\h1CBD, \h1CBF>>, <<\h1D00, \h1DBF>>, <<\h1E00,
      \h1F15>>, <<\h1F18, \h1F1D>>, <<\h1F20, \h1F45>>, <<\h1F48, \h1F4D>>,
      <<\h1F50, \h1F57>>, <<\h1F59, \h1F59>>, <<\h1F5B, \h1F5B>>, <<\h1F5D,
      \h1F5D>>, <<\h1F5F, \h1F7D>>, <<\h1F80, \h1FB4>>, <<\h1FB6, \h1FBC>>,
      <<\h1FBE, \h1FBE>>, <<\h1FC2, \h1FC4>>, <<\h1FC6, \h1FCC>>, <<\h1FD0,
      \h1FD3>>, <<\h1FD6, \h1FDB>>, <<\h1FE0, \h1FEC>>, <<\h1FF2, \h1FF4>>,
      <<\h1FF6, \h1FFC>>, <<\h2071, \h2071>>, <<\h207F, \h207F>>, <<\h2090,
      \h209C>>, <<\h2102, \h2102>>, <<\h2107, \h2107>>, <<\h210A, \h2113>>,
      <<\h2115, \h2115>>, <<\h2119, \h211D>>, <<\h2124, \h2124>>, <<\h2126,
      \h2126>>, <<\h2128, \h2128>>, <<\h212A, \h212D>>, <<\h212F, \h2134>>,
      <<\h2139, \h2139>>, <<\h213C, \h213F>>, <<\h2145, \h2149>>, <<\h214E,
      \h214E>>, <<\h2160, \h217F>>, <<\h2183, \h2184>>, <<\h24B6, \h24E9>>,
      <<\h2C00, \h2CE4>>, <<\h2CEB, \h2CEE>>, <<\h2CF2, \h2CF3>>, <<\h2D00,
      \h2D25>>, <<\h2D27, \h2D27>>, <<\h2D2D, \h2D2D>>, <<\hA640, \hA66D>>,
      <<\hA680, \hA69D>>, <<\hA722, \hA787>>, <<\hA78B, \hA78E>>, <<\hA790,
      \hA7CA>>, <<\hA7D0, \hA7D1>>, <<\hA7D3, \hA7D3>>, <<\hA7D5, \hA7D9>>,
      <<\hA7F5, \hA7F6>>, <<\hA7F8, \hA7FA>>, <<\hAB30, \hAB5A>>, <<\hAB5C,
      \hAB68>>, <<\hAB70, \hABBF>>, <<\hFB00, \hFB06>>, <<\hFB13, \hFB17>>,
      <<\hFF21, \hFF3A>>, <<\hFF41, \hFF5A>>, <<\h10400, \h1044F>>,
      <<\h104B0, \h104D3>>, <<\h104D8, \h104FB>>, <<\h10570, \h1057A>>,
      <<\h1057C, \h1058A>>, <<\h1058C, \h10592>>, <<\h10594, \h10595>>,
      <<\h10597, \h105A1>>, <<\h105A3, \h105B1>>, <<\h105B3, \h105B9>>,
      <<\h105BB, \h105BC>>, <<\h10780, \h10780>>, <<\h10783, \h10785>>,
      <<\h10787, \h107B0>>, <<\h107B2, \h107BA>>, <<\h10C80, \h10CB2>>,
      <<\h10CC0, \h10CF2>>, <<\h118A0, \h118DF>>, <<\h16E40, \h16E7F>>,
      <<\h1D400, \h1D454>>, <<\h1D456, \h1D49C>>, <<\h1D49E, \h1D49F>>,
      <<\h1D4A2, \h1D4A2>>, <<\h1D4A5, \h1D4A6>>, <<\h1D4A9, \h1D4AC>>,
      <<\h1D4AE, \h1D4B9>>, <<\h1D4BB, \h1D4BB>>, <<\h1D4BD, \h1D4C3>>,
      <<\h1D4C5, \h1D505>>, <<\h1D507, \h1D50A>>, <<\h1D50D, \h1D514>>,
      <<\h1D516, \h1D51C>>, <<\h1D51E, \h1D539>>, <<\h1D53B, \h1D53E>>,
      <<\h1D540, \h1D544>>, <<\h1D546, \h1D546>>, <<\h1D54A, \h1D550>>,
      <<\h1D552, \h1D6A5>>, <<\h1D6A8, \h1D6C0>>, <<\h1D6C2, \h1D6DA>>,
      <<\h1D6DC, \h1D6FA>>, <<\h1D6FC, \h1D714>>, <<\h1D716, \h1D734>>,
      <<\h1D736, \h1D74E>>, <<\h1D750, \h1D76E>>, <<\h1D770, \h1D788>>,
      <<\h1D78A, \h1D7A8>>, <<\h1D7AA, \h1D7C2>>, <<\h1D7C4, \h1D7CB>>,
      <<\h1DF00, \h1DF09>>, <<\h1DF0B, \h1DF1E>>, <<\h1E900, \h1E943>>,
      <<\h1F130, \h1F149>>, <<\h1F150, \h1F169>>, <<\h1F170, \h1F189>> >>

\* The code points with the property Case_Ignorable, as ranges.
CaseIgnorableRanges ==
    <<
      <<\h0027, \h0027>>, <<\h002E, \h002E>>, <<\h003A, \h003A>>, <<\h005E,
      \h005E>>, <<\h0060, \h0060>>, <<\h00A8, \h00A8>>, <<\h00AD, \h00AD>>,
      <<\h00AF, \h00AF>>, <<\h00B4, \h00B4>>, <<\h00B7, \h00B8>>, <<\h02B0,
      \h036F>>, <<\h0374, \h0375>>, <<\h037A, \h037A>>, <<\h0384, \h0385>>,
      <<\h0387, \h0387>>, <<\h0483, \h0489>>, <<\h0559, \h0559>>, <<\h055F,
      \h055F>>, <<\h0591, \h05BD>>, <<\h05BF, \h05BF>>, <<\h05C1, \h05C2>>,
      <<\h05C4, \h05C5>>, <<\h05C7, \h05C7>>, <<\h05F4, \h05F4>>, <<\h0600,
      \h0605>>, <<\h0610, \h061A>>, <<\h061C, \h061C>>, <<\h0640, \h0640>>,
      <<\h064B, \h065F>>, <<\h0670, \h0670>>, <<\h06D6, \h06DD>>, <<\h06DF,
      \h06E8>>, <<\h06EA, \h06ED>>, <<\h070F, \h070F>>, <<\h0711, \h0711>>,
      <<\h0730, \h074A>>, <<\h07A6, \h07B0>>, <<\h07EB, \h07F5>>, <<\h07FA,
      \h07FA>>, <<\h07FD, \h07FD>>, <<\h0816, \h082D>>, <<\h0859, \h085B>>,
      <<\h0888, \h0888>>, <<\h0890, \h0891>>, <<\h0898, \h089F>>, <<\h08C9,
      \h0902>>, <<\h093A, \h093A>>, <<\h093C, \h093C>>, <<\h0941, \h0948>>,
      <<\h094D, \h094D>>, <<\h0951, \h0957>>, <<\h0962, \h0963>>, <<\h0971,
      \h0971>>, <<\h0981, \h0981>>, <<\h09BC, \h09BC>>, <<\h09C1, \h09C4>>,
      <<\h09CD, \h09CD>>, <<\h09E2, \h09E3>>, <<\h09FE, \h09FE>>, <<\h0A01,
      \h0A02>>, <<\h0A3C, \h0A3C>>, <<\h0A41, \h0A42>>, <<\h0A47, \h0A48>>,
      <<\h0A4B, \h0A4D>>, <<\h0A51, \h0A51>>, <<\h0A70, \h0A71>>, <<\h0A75,
      \h0A75>>, <<\h0A81, \h0A82>>, <<\h0ABC, \h0ABC>>, <<\h0AC1, \h0AC5>>,
      <<\h0AC7, \h0AC8>>, <<\h0ACD, \h0ACD>>, <<\h0AE2, \h0AE3>>, <<\h0AFA,
      \h0AFF>>, <<\h0B01, \h0B01>>, <<\h0B3C, \h0B3C>>, <<\h0B3F, \h0B3F>>,
      <<\h0B41, \h0B44>>, <<\h0B4D, \h0B4D>>, <<\h0B55, \h0B56>>, <<\h0B62,
      \h0B63>>, <<\h0B82, \h0B82>>, <<\h0BC0, \h0BC0>>, <<\h0BCD, \h0BCD>>,
      <<\h0C00, \h0C00>>, <<\h0C04, \h0C04>>, <<\h0C3C, \h0C3C>>, <<\h0C3E,
      \h0C40>>, <<\h0C46, \h0C48>>, <<\h0C4A, \h0C4D>>, <<\h0C55, \h0C56>>,
      <<\h0C62, \h0C63>>, <<\h0C81, \h0C81>>, <<\h0CBC, \h0CBC>>, <<\h0CBF,
      \h0CBF>>, <<\h0CC6, \h0CC6>>, <<\h0CCC, \h0CCD>>, <<\h0CE2, \h0CE3>>,
      <<\h0D00, \h0D01>>, <<\h0D3B, \h0D3C>>, <<\h0D41, \h0D44>>, <<\h0D4D,
      \h0D4D>>, <<\h0D62, \h0D63>>, <<\h0D81, \h0D81>>, <<\h0DCA, \h0DCA>>,
      <<\h0DD2, \h0DD4>>, <<\h0DD6, \h0DD6>>, <<\h0E31, \h0E31>>, <<\h0E34,
      \h0E3A>>, <<\h0E46, \h0E4E>>, <<\h0EB1, \h0EB1>>, <<\h0EB4, \h0EBC>>,
      <<\h0EC6, \h0EC6>>, <<\h0EC8, \h0ECD>>, <<\h0F18, \h0F19>>, <<\h0F35,
      \h0F35>>, <<\h0F37, \h0F37>>, <<\h0F39, \h0F39>>, <<\h0F71, \h0F7E>>,
      <<\h0F80, \h0F84>>, <<\h0F86, \h0F87>>, <<\h0F8D, \h0F97>>, <<\h0F99,
      \h0FBC>>, <<\h0FC6, \h0FC6>>, <<\h102D, \h1030>>, <<\h1032, \h1037>>,
      <<\h1039, \h103A>>, <<\h103D, \h103E>>, <<\h1058, \h1059>>, <<\h105E,
      \h1060>>, <<\h1071, \h1074>>, <<\h1082, \h1082>>, <<\h1085, \h1086>>,
      <<\h108D, \h108D>>, <<\h109D, \h109D>>, <<\h10FC, \h10FC>>, <<\h135D,
      \h135F>>, <<\h1712, \h1714>>, <<\h1732, \h1733>>, <<\h1752, \h1753>>,
      <<\h1772, \h1773>>, <<\h17B4, \h17B5>>, <<\h17B7, \h17BD>>, <<\h17C6,
      \h17C6>>, <<\h17C9, \h17D3>>, <<\h17D7, \h17D7>>, <<\h17DD, \h17DD>>,
      <<\h180B, \h180F>>, <<\h1843, \h1843>>, <<\h1885, \h1886>>, <<\h18A9,
      \h18A9>>, <<\h1920, \h1922>>, <<\h1927, \h1928>>, <<\h1932, \h1932>>,
      <<\h1939, \h193B>>, <<\h1A17, \h1A18>>, <<\h1A1B, \h1A1B>>, <<\h1A56,
      \h1A56>>, <<\h1A58, \h1A5E>>, <<\h1A60, \h1A60>>, <<\h1A62, \h1A62>>,
      <<\h1A65, \h1A6C>>, <<\h1A73, \h1A7C>>, <<\h1A7F, \h1A7F>>, <<\h1AA7,
      \h1AA7>>, <<\h1AB0, \h1ACE>>, <<\h1B00, \h1B03>>, <<\h1B34, \h1B34>>,
      <<\h1B36, \h1B3A>>, <<\h1B3C, \h1B3C>>, <<\h1B42, \h1B42>>, <<\h1B6B,
      \h1B73>>, <<\h1B80, \h1B81>>, <<\h1BA2, \h1BA5>>, <<\h1BA8, \h1BA9>>,
      <<\h1BAB, \h1BAD>>, <<\h1BE6, \h1BE6>>, <<\h1BE8, \h1BE9>>, <<\h1BED,
      \h1BED>>, <<\h1BEF, \h1BF1>>, <<\h1C2C, \h1C33>>, <<\h1C36, \h1C37>>,
      <<\h1C78, \h1C7D>>, <<\h1CD0, \h1CD2>>, <<\h1CD4, \h1CE0>>, <<\h1CE2,
      \h1CE8>>, <<\h1CED, \h1CED>>, <<\h1CF4, \h1CF4>>, <<\h1CF8, \h1CF9>>,
      <<\h1D2C, \h1D6A>>, <<\h1D78, \h1D78>>, <<\h1D9B, \h1DFF>>, <<\h1FBD,
      \h1FBD>>, <<\h1FBF, \h1FC1>>, <<\h1FCD, \h1FCF>>, <<\h1FDD, \h1FDF>>,
      <<\h1FED, \h1FEF>>, <<\h1FFD, \h1FFE>>, <<\h200B, \h200F>>, <<\h2018,
      \h2019>>, <<\h2024, \h2024>>, <<\h2027, \h2027>>, <<\h202A, \h202E>>,
      <<\h2060, \h2064>>, <<\h2066, \h206F>>, <<\h2071, \h2071>>, <<\h207F,
      \h207F>>, <<\h2090, \h209C>>, <<\h20D0, \h20F0>>, <<\h2C7C, \h2C7D>>,
      <<\h2CEF, \h2CF1>>, <<\h2D6F, \h2D6F>>, <<\h2D7F, \h2D7F>>, <<\h2DE0,
      \h2DFF>>, <<\h2E2F, \h2E2F>>, <<\h3005, \h3005>>, <<\h302A, \h302D>>,
      <<\h3031, \h3035>>, <<\h303B, \h303B>>, <<\h3099, \h309E>>, <<\h30FC,
      \h30FE>>, <<\hA015, \hA015>>, <<\hA4F8, \hA4FD>>, <<\hA60C, \hA60C>>,
      <<\hA66F, \hA672>>, <<\hA674, \hA67D>>, <<\hA67F, \hA67F>>, <<\hA69C,
      \hA69F>>, <<\hA6F0, \hA6F1>>, <<\hA700, \hA721>>, <<\hA770, \hA770>>,
      <<\hA788, \hA78A>>, <<\hA7F2, \hA7F4>>, <<\hA7F8, \hA7F9>>, <<\hA802,
      \hA802>>, <<\hA806, \hA806>>, <<\hA80B, \hA80B>>, <<\hA825, \hA826>>,
      <<\hA82C, \hA82C>>, <<\hA8C4, \hA8C5>>, <<\hA8E0, \hA8F1>>, <<\hA8FF,
      \hA8FF>>, <<\hA926, \hA92D>>, <<\hA947, \hA951>>, <<\hA980, \hA982>>,
      <<\hA9B3, \hA9B3>>, <<\hA9B6, \hA9B9>>, <<\hA9BC, \hA9BD>>, <<\hA9CF,
      \hA9CF>>, <<\hA9E5, \hA9E6>>, <<\hAA29, \hAA2E>>, <<\hAA31, \hAA32>>,
      <<\hAA35, \hAA36>>, <<\hAA43, \hAA43>>, <<\hAA4C, \hAA4C>>, <<\hAA70,
      \hAA70>>, <<\hAA7C, \hAA7C>>, <<\hAAB0, \hAAB0>>, <<\hAAB2, \hAAB4>>,
      <<\hAAB7, \hAAB8>>, <<\hAABE, \hAABF>>, <<\hAAC1, \hAAC1>>, <<\hAADD,
      \hAADD>>, <<\hAAEC, \hAAED>>, <<\hAAF3, \hAAF4>>, <<\hAAF6, \hAAF6>>,
      <<\hAB5B, \hAB5F>>, <<\hAB69, \hAB6B>>, <<\hABE5, \hABE5>>, <<\hABE8,
      \hABE8>>, <<\hABED, \hABED>>, <<\hFB1E, \hFB1E>>, <<\hFBB2, \hFBC2>>,
      <<\hFE00, \hFE0F>>, <<\hFE13, \hFE13>>, <<\hFE20, \hFE2F>>, <<\hFE52,
      \hFE52>>, <<\hFE55, \hFE55>>, <<\hFEFF, \hFEFF>>, <<\hFF07, \hFF07>>,
      <<\hFF0E, \hFF0E>>, <<\hFF1A, \hFF1A>>, <<\hFF3E, \hFF3E>>, <<\hFF40,
      \hFF40>>, <<\hFF70, \hFF70>>, <<\hFF9E, \hFF9F>>, <<\hFFE3, \hFFE3>>,
      <<\hFFF9, \hFFFB>>, <<\h101FD, \h101FD>>, <<\h102E0, \h102E0>>,
      <<\h10376, \h1037A>>, <<\h10780, \h10785>>, <<\h10787, \h107B0>>,
      <<\h107B2, \h107BA>>, <<\h10A01, \h10A03>>, <<\h10A05, \h10A06>>,
      <<\h10A0C, \h10A0F>>, <<\h10A38, \h10A3A>>, <<\h10A3F, \h10A3F>>,
      <<\h10AE5, \h10AE6>>, <<\h10D24, \h10D27>>, <<\h10EAB, \h10EAC>>,
      <<\h10F46, \h10F50>>, <<\h10F82, \h10F85>>, <<\h11001, \h11001>>,
      <<\h11038, \h11046>>, <<\h11070, \h11070>>, <<\h11073, \h11074>>,
      <<\h1107F, \h11081>>, <<\h110B3, \h110B6>>, <<\h110B9, \h110BA>>,
      <<\h110BD, \h110BD>>, <<\h110C2, \h110C2>>, <<\h110CD, \h110CD>>,
      <<\h11100, \h11102>>, <<\h11127, \h1112B>>, <<\h1112D, \h11134>>,
      <<\h11173, \h11173>>, <<\h11180, \h11181>>, <<\h111B6, \h111BE>>,
      <<\h111C9, \h111CC>>, <<\h111CF, \h111CF>>, <<\h1122F, \h11231>>,
      <<\h11234, \h11234>>, <<\h11236, \h11237>>, <<\h1123E, \h1123E>>,
      <<\h112DF, \h112DF>>, <<\h112E3, \h112EA>>, <<\h11300, \h11301>>,
      <<\h1133B, \h1133C>>, <<\h11340, \h11340>>, <<\h11366, \h1136C>>,
      <<\h11370, \h11374>>, <<\h11438, \h1143F>>, <<\h11442, \h11444>>,
      <<\h11446, \h11446>>, <<\h1145E, \h1145E>>, <<\h114B3, \h114B8>>,
      <<\h114BA, \h114BA>>, <<\h114BF, \h114C0>>, <<\h114C2, \h114C3>>,
      <<\h115B2, \h115B5>>, <<\h115BC, \h115BD>>, <<\h115BF, \h115C0>>,
      <<\h115DC, \h115DD>>, <<\h11633, \h1163A>>, <<\h1163D, \h1163D>>,
      <<\h1163F, \h11640>>, <<\h116AB, \h116AB>>, <<\h116AD, \h116AD>>,
      <<\h116B0, \h116B5>>, <<\h116B7, \h116B7>>, <<\h1171D, \h1171F>>,
      <<\h11722, \h11725>>, <<\h11727, \h1172B>>, <<\h1182F, \h11837>>,
      <<\h11839, \h1183A>>, <<\h1193B, \h1193C>>, <<\h1193E, \h1193E>>,
      <<\h11943, \h11943>>, <<\h119D4, \h119D7>>, <<\h119DA, \h119DB>>,
      <<\h119E0, \h119E0>>, <<\h11A01, \h11A0A>>, <<\h11A33, \h11A38>>,
      <<\h11A3B, \h11A3E>>, <<\h11A47, \h11A47>>, <<\h11A51, \h11A56>>,
      <<\h11A59, \h11A5B>>, <<\h11A8A, \h11A96>>, <<\h11A98, \h11A99>>,
      <<\h11C30, \h11C36>>, <<\h11C38, \h11C3D>>, <<\h11C3F, \h11C3F>>,
      <<\h11C92, \h11CA7>>, <<\h11CAA, \h11CB0>>, <<\h11CB2, \h11CB3>>,
      <<\h11CB5, \h11CB6>>, <<\h11D31, \h11D36>>, <<\h11D3A, \h11D3A>>,
      <<\h11D3C, \h11D3D>>, <<\h11D3F, \h11D45>>, <<\h11D47, \h11D47>>,
      <<\h11D90, \h11D91>>, <<\h11D95, \h11D95>>, <<\h11D97, \h11D97>>,
      <<\h11EF3, \h11EF4>>, <<\h13430, \h13438>>, <<\h16AF0, \h16AF4>>,
      <<\h16B30, \h16B36>>, <<\h16B40, \h16B43>>, <<\h16F4F, \h16F4F>>,
      <<\h16F8F, \h16F9F>>, <<\h16FE0, \h16FE1>>, <<\h16FE3, \h16FE4>>,
      <<\h1AFF0, \h1AFF3>>, <<\h1AFF5, \h1AFFB>>, <<\h1AFFD, \h1AFFE>>,
      <<\h1BC9D, \h1BC9E>>, <<\h1BCA0, \h1BCA3>>, <<\h1CF00, \h1CF2D>>,
      <<\h1CF30, \h1CF46>>, <<\h1D167, \h1D169>>, <<\h1D173, \h1D182>>,
      <<\h1D185, \h1D18B>>, <<\h1D1AA, \h1D1AD>>, <<\h1D242, \h1D244>>,
      <<\h1DA00, \h1DA36>>, <<\h1DA3B, \h1DA6C>>, <<\h1DA75, \h1DA75>>,
      <<\h1DA84, \h1DA84>>, <<\h1DA9B, \h1DA9F>>, <<\h1DAA1, \h1DAAF>>,
      <<\h1E000, \h1E006>>, <<\h1E008, \h1E018>>, <<\h1E01B, \h1E021>>,
      <<\h1E023, \h1E024>>, <<\h1E026, \h1E02A>>, <<\h1E130, \h1E13D>>,
      <<\h1E2AE, \h1E2AE>>, <<\h1E2EC, \h1E2EF>>, <<\h1E8D0, \h1E8D6>>,
      <<\h1E944, \h1E94B>>, <<\h1F3FB, \h1F3FF>>, <<\hE0001, \hE0001>>,
      <<\hE0020, \hE007F>>, <<\hE0100, \hE01EF>> >>

\* _PyUnicode_IsCased and _PyUnicode_IsCaseIgnorable
IsCased(c) ==
    \E r \in 1..Len(CasedRanges) :
        CasedRanges[r][1] <= ord(c) /\ ord(c) <= CasedRanges[r][2]
IsCaseIgnorable(c) ==
    \E r \in 1..Len(CaseIgnorableRanges) :
        CaseIgnorableRanges[r][1] <= ord(c) /\ ord(c) <= CaseIgnorableRanges[r][2]

\* unicodeobject.c, handle_capital_sigma: the capital sigma at position k of
\* s lowers to the final sigma when, case-ignorable characters skipped, a
\* cased character stands before it and none stands after it: U+03C2 then,
\* the small sigma U+03C3 otherwise.
handle_capital_sigma(s, k) ==
    LET before == {j \in 1..(k - 1) : ~IsCaseIgnorable(s[j])}
        after  == {j \in (k + 1)..Len(s) : ~IsCaseIgnorable(s[j])}
    IN  IF before # {} /\ IsCased(s[SetMax(before)])
           /\ (after = {} \/ ~IsCased(s[SetMin(after)]))
        THEN "U+03C2"
        ELSE "U+03C3"

\* _PyUnicode_ToLowerFull: the characters one character lowers to; the
\* capital I with dot above lowers to i and the combining dot above.
ToLowerFull(c) ==
    LET n == ord(c)
        hits == {r \in 1..Len(LowerRanges) :
                    /\ LowerRanges[r][1] <= n /\ n <= LowerRanges[r][2]
                    /\ (n - LowerRanges[r][1]) % LowerRanges[r][3] = 0}
    IN  IF c = "U+0130" THEN <<"i", "U+0307">>
        ELSE IF hits = {} THEN <<c>>
        ELSE <<chr(n + LowerRanges[CHOOSE r \in hits : TRUE][4])>>

\* CPython's table of the lower-case forms of the ASCII characters
\* (Py_TOLOWER): A..Z lower to a..z, every other one to itself.
Py_TOLOWER ==
    [c \in {Latin1[n] : n \in 1..127} |->
        LET n == CHOOSE m \in 1..127 : Latin1[m] = c
        IN  IF n \in \h41..\h5A THEN Latin1[n + 32] ELSE c]

\* str.lower(): an ASCII string is lowered by the table (unicode_lower,
\* ascii_upper_or_lower); in any other, the capital sigma U+03A3 lowers by
\* its context and every other character by _PyUnicode_ToLowerFull.
lower(s) ==
    IF \A k \in 1..Len(s) : s[k] \in DOMAIN Py_TOLOWER
    THEN [k \in 1..Len(s) |-> Py_TOLOWER[s[k]]]
    ELSE Concat([k \in 1..Len(s) |->
                    IF s[k] = "U+03A3" THEN <<handle_capital_sigma(s, k)>>
                    ELSE ToLowerFull(s[k])])

(***************************************************************************)
(* Plain-text strategy.                                                    *)
(***************************************************************************)
\* The filter with > in place of >=.
KeptParagraph_longer_than_min(cleaned) == cleaned # <<>> /\ Len(cleaned) > min_length

\* The filter of _split_into_paragraphs: `if cleaned and len(cleaned) >= min_length`.
KeptParagraph(cleaned) == cleaned # <<>> /\ Len(cleaned) >= min_length

\* _split_into_paragraphs(text): split, clean each piece, drop short ones.
_split_into_paragraphs(text) ==
    LET pieces  == re_split_paragraphs(text)
        cleaned == [k \in 1..Len(pieces) |-> clean(pieces[k])]
    IN  SelectSeq(cleaned, KeptParagraph)

\* A Passage record.
Passage(id, text, page, style) ==
    [id |-> id, text |-> text, page |-> page, style |-> style]

\* TxtStyle without the check that the first passage is a title.
TxtStyle_author_without_title(idx, p, emitted) ==
    IF idx = 0 /\ Len(p) < TxtTitleLen
    THEN "title"
    ELSE IF idx = 1 /\ Len(p) < TxtAuthorLen THEN "author" ELSE "paragraph"

\* The style parse_txt gives paragraph p at 0-based index idx, given the
\* passages built so far.
TxtStyle(idx, p, emitted) ==
    IF idx = 0 /\ Len(p) < TxtTitleLen
    THEN "title"
    ELSE IF idx = 1 /\ Len(p) < TxtAuthorLen /\ emitted # <<>>
              /\ emitted[1].style = "title"
         THEN "author"
         ELSE "paragraph"


(***************************************************************************)
(* State.                                                                  *)
(***************************************************************************)
VARIABLES
    \* parse_document(file_path, file_type): its arguments and its position
    file_type,       \* the format tag passed by the caller
    file,            \* what the file at file_path holds
    pc,              \* position in parse_document and the running strategy
    result,          \* what parse_document returned or raised; None before
    \* locals of the running strategy
    paragraphs,      \* parse_txt: the list _split_into_paragraphs returned
    i,               \* parse_txt / parse_docx: 0-based loop index
    all_font_sizes,  \* parse_pdf: pass-1 list of sizes, one per character
    normal_size,     \* parse_pdf: the baseline size; None until computed
    page_num,        \* parse_pdf: 1-based page of the loop in progress
    block_num,       \* parse_pdf: 0-based index of the next block of the page
    passages,        \* the list of Passage records built so far
    uuid_ctr,        \* stands for uuid.uuid4(): the next fresh id
    \* upload_document
    request,         \* the upload of the handler that runs or ran last
    up_pc,           \* position of that handler, or of the server's lifespan
    out_path,        \* the path the upload was saved under; <<>> before
    uploads,         \* the files of UPLOADS_DIR (their paths)
    responses,       \* the answers given so far, oldest first
    reading,         \* the handlers suspended at `await file.read()`
    \* other invocations of parse_document in progress
    suspended        \* their frames (arguments, position, locals), not running

parse_vars == <<file_type, file, pc, result, paragraphs, i, all_font_sizes,
                normal_size, page_num, block_num, passages>>

upload_vars == <<request, up_pc, out_path, uploads, responses, reading>>

vars == <<parse_vars, uuid_ctr, upload_vars, suspended>>

\* A file: its bytes, and what fitz.open and docx.Document make of them.  A
\* library that cannot read the bytes raises.
Unreadable == [valid |-> FALSE, content |-> <<>>]
Readable(content) == [valid |-> TRUE, content |-> content]
File(bytes, pdf, docx) == [bytes |-> bytes, pdf |-> pdf, docx |-> docx]

(***************************************************************************)
(* parse_txt, one loop iteration per step.                                 *)
(***************************************************************************)
\* parsers.py:42-45
TxtSplit ==
    /\ pc = "parse_txt"
    /\ paragraphs' = _split_into_paragraphs(read_text(file.bytes))
    /\ i' = 0
    /\ passages' = <<>>
    /\ pc' = "txt_loop"
    /\ UNCHANGED <<file_type, file, result, all_font_sizes, normal_size, page_num, block_num, uuid_ctr, upload_vars, suspended>>

\* parsers.py:46-54
TxtParagraph ==
    /\ pc = "txt_loop"
    /\ i < Len(paragraphs)
    /\ LET p == paragraphs[i + 1]
       IN  passages' = Append(passages,
                              Passage(uuid_ctr, p, None, TxtStyle(i, p, passages)))
    /\ i' = i + 1
    /\ uuid_ctr' = uuid_ctr + 1
    /\ UNCHANGED <<file_type, file, pc, result, paragraphs, all_font_sizes, normal_size, page_num, block_num, upload_vars, suspended>>

\* parsers.py:56
TxtReturn ==
    /\ pc = "txt_loop"
    /\ i = Len(paragraphs)
    /\ result' = passages
    /\ pc' = "done"
    /\ UNCHANGED <<file_type, file, paragraphs, i, all_font_sizes, normal_size, page_num, block_num, passages, uuid_ctr, upload_vars, suspended>>

(***************************************************************************)
(* parse_pdf.  A document is a sequence of pages, a page a sequence of     *)
(* blocks (page.get_text("dict")["blocks"]), a block a record of its type  *)
(* and lines, a line a sequence of spans, a span a record of its text,     *)
(* size and flags.  Sizes are whole numbers here; PyMuPDF reports floats,  *)
(* and a float of integral value hashes and compares like the integer.     *)
(***************************************************************************)
Span(text, size, flags) == [text |-> text, size |-> size, flags |-> flags]
TextBlock(lines) == [type |-> 0, lines |-> lines]
ImageBlock == [type |-> 1, lines |-> <<>>]

\* All spans of a block, line after line.
BlockSpans(block) == Concat(block.lines)

\* parsers.py:68-75: what one page adds to all_font_sizes: for every span of
\* every text block whose stripped text is not empty, its size once per
\* character of the stripped text.
\* SpanSizes with each span counted once, whatever the length of its text.
RECURSIVE SpanSizes_once_per_span(_)
SpanSizes_once_per_span(spans) ==
    IF spans = <<>> THEN <<>>
    ELSE LET text == strip(Head(spans).text)
         IN  (IF text # <<>> THEN <<Head(spans).size>> ELSE <<>>)
                 \o SpanSizes_once_per_span(Tail(spans))

RECURSIVE SpanSizes(_)
SpanSizes(spans) ==
    IF spans = <<>> THEN <<>>
    ELSE LET text == strip(Head(spans).text)
         IN  (IF text # <<>> THEN Rep(Head(spans).size, Len(text)) ELSE <<>>)
                 \o SpanSizes(Tail(spans))

RECURSIVE PageFontSizes(_)
PageFontSizes(blocks) ==
    IF blocks = <<>> THEN <<>>
    ELSE (IF Head(blocks).type = 0 THEN SpanSizes(BlockSpans(Head(blocks)))
          ELSE <<>>)
             \o PageFontSizes(Tail(blocks))

\* list.count
count(xs, x) == Cardinality({k \in 1..Len(xs) : xs[k] = x})

\* The hash table of a CPython set is a function from the slots 0..mask to
\* the keys, -1 marking a free slot.  hash(key) = key for the non-negative
\* sizes modelled.
EmptyTable(size) == [slot \in 0..(size - 1) |-> -1]
TableKeys(table) ==
    SelectSeq([k \in 1..((Cardinality(DOMAIN table) - 1) + 1) |-> table[k - 1]],
              LAMBDA v : v # -1)

\* The probe sequence of set_add_entry and of set_insert_clean, from slot at:
\* the slot itself and, when at + LINEAR_PROBES <= mask, the LINEAR_PROBES
\* slots after it; then at = (at * 5 + 1 + perturb) & mask with perturb
\* shifted right by PERTURB_SHIFT.  The result is the first slot of the
\* sequence that is free or holds key.
RECURSIVE set_probe(_, _, _, _)
set_probe(table, key, at, perturb) ==
    LET mask   == (Cardinality(DOMAIN table) - 1)
        probes == IF at + LinearProbes <= mask THEN LinearProbes ELSE 0
        found  == {e \in at..(at + probes) : table[e] = -1 \/ table[e] = key}
        p      == perturb \div (2 ^ PerturbShift)
    IN  IF found # {} THEN SetMin(found)
        ELSE set_probe(table, key, (at * 5 + 1 + p) % (mask + 1), p)

\* set_insert_clean: key goes to the first free slot of its probe sequence.
set_insert_clean(table, key) ==
    [table EXCEPT ![set_probe(table, key, key % ((Cardinality(DOMAIN table) - 1) + 1), key)] = key]

RECURSIVE set_insert_all(_, _)
set_insert_all(table, keys) ==
    IF keys = <<>> THEN table
    ELSE set_insert_all(set_insert_clean(table, Head(keys)), Tail(keys))

\* set_table_resize(so, minused): the new table has the first size, doubling
\* from PySet_MINSIZE, that is greater than minused; the keys are inserted
\* into it in the order of their slots in the old table.
RECURSIVE set_newsize(_, _)
set_newsize(newsize, minused) ==
    IF newsize <= minused THEN set_newsize(2 * newsize, minused) ELSE newsize

set_table_resize(table, minused) ==
    set_insert_all(EmptyTable(set_newsize(SetSlots, minused)), TableKeys(table))

\* set_add_entry: a key the table holds changes nothing; a new key takes the
\* free slot, and the table is resized to hold four times its keys (twice
\* from SetGrowSlowly keys on) once fill * 5 >= mask * 3.
set_add_entry(table, key) ==
    LET slot == set_probe(table, key, key % ((Cardinality(DOMAIN table) - 1) + 1), key)
        t    == [table EXCEPT ![slot] = key]
        used == Len(TableKeys(t))
    IN  IF table[slot] = key THEN table
        ELSE IF used * 5 < (Cardinality(DOMAIN t) - 1) * 3 THEN t
        ELSE set_table_resize(t, IF used > SetGrowSlowly THEN used * 2
                                 ELSE used * 4)

\* set(xs): the elements are added in list order; adding a key again
\* changes nothing, so only first occurrences (at the positions firsts) count.
RECURSIVE set_table(_, _, _)
set_table(xs, firsts, table) ==
    IF firsts = {} THEN table
    ELSE LET k == SetMin(firsts)
         IN  set_table(xs, firsts \ {k}, set_add_entry(table, xs[k]))

\* The order in which iterating set(xs) yields its elements: slot order.
set_iter(xs) ==
    LET firsts == {k \in 1..Len(xs) : \A j \in 1..(k - 1) : xs[j] # xs[k]}
    IN  TableKeys(set_table(xs, firsts, EmptyTable(SetSlots)))

\* max(iterable, key=f) returns the first element whose key is maximal.
RECURSIVE max_by_count(_, _, _)
max_by_count(it, xs, best) ==
    IF it = <<>> THEN best
    ELSE max_by_count(Tail(it), xs,
                      IF count(xs, Head(it)) > count(xs, best) THEN Head(it)
                      ELSE best)

\* parsers.py:78-81: the baseline size.
NormalSize(sizes) ==
    IF sizes # <<>>
    THEN max_by_count(Tail(set_iter(sizes)), sizes, Head(set_iter(sizes)))
    ELSE DefaultNormalSize

\* parsers.py:96-108: the text parts of a block, one per line: the texts of
\* the line's spans, concatenated.
LineText(line) == Concat([k \in 1..Len(line) |-> line[k].text])
BlockTextParts(block) == [k \in 1..Len(block.lines) |-> LineText(block.lines[k])]

\* " ".join(parts)
RECURSIVE join_space(_)
join_space(parts) ==
    IF parts = <<>> THEN <<>>
    ELSE IF Len(parts) = 1 THEN parts[1]
    ELSE parts[1] \o <<" ">> \o join_space(Tail(parts))

\* parsers.py:111-112
BlockText(block) == clean(join_space(BlockTextParts(block)))

\* parsers.py:93,101-103: max_font_size starts at 0 and rises to the largest
\* span size of the block.
RECURSIVE MaxFontSize(_, _)
MaxFontSize(spans, m) ==
    IF spans = <<>> THEN m
    ELSE MaxFontSize(Tail(spans), IF Head(spans).size > m THEN Head(spans).size ELSE m)

\* parsers.py:94,105-107: flags & 16 on some span of the block.
IsBold(block) ==
    \E k \in 1..Len(BlockSpans(block)) :
        (BlockSpans(block)[k].flags \div BoldFlag) % 2 = 1

\* parsers.py:119,121: size_ratio >= 1.5 with
\* size_ratio = max_font_size / normal_size if normal_size > 0 else 1.
\* The quotient of two sizes is compared with a threshold t/10 by cross
\* multiplication, which decides as the float comparison does.
RatioAtLeast(max_font_size, normal, tX10) ==
    IF normal > 0 THEN 10 * max_font_size >= tX10 * normal ELSE 10 >= tX10

\* PdfStyle with the title threshold exclusive: size_ratio > 1.5.
PdfStyle_title_above_threshold(max_font_size, is_bold, block_text, normal, page, emitted) ==
    IF RatioAtLeast(max_font_size, normal, TitleRatioX10)
          /\ ~(normal > 0 /\ 10 * max_font_size = TitleRatioX10 * normal)
    THEN "title"
    ELSE IF RatioAtLeast(max_font_size, normal, HeadingRatioX10) \/ is_bold
    THEN IF Len(block_text) < PdfShortLen
         THEN IF page = 1 /\ Len(emitted) >= 1
                   /\ emitted[Len(emitted)].style = "title"
              THEN "author"
              ELSE "heading"
         ELSE "paragraph"
    ELSE "paragraph"

\* PdfStyle with the author tag given after a title on any page.
PdfStyle_author_on_any_page(max_font_size, is_bold, block_text, normal, page, emitted) ==
    IF RatioAtLeast(max_font_size, normal, TitleRatioX10)
    THEN "title"
    ELSE IF RatioAtLeast(max_font_size, normal, HeadingRatioX10) \/ is_bold
    THEN IF Len(block_text) < PdfShortLen
         THEN IF Len(emitted) >= 1 /\ emitted[Len(emitted)].style = "title"
              THEN "author"
              ELSE "heading"
         ELSE "paragraph"
    ELSE "paragraph"

\* parsers.py:118-132: the style of a retained block.
PdfStyle(max_font_size, is_bold, block_text, normal, page, emitted) ==
    IF RatioAtLeast(max_font_size, normal, TitleRatioX10)
    THEN "title"
    ELSE IF RatioAtLeast(max_font_size, normal, HeadingRatioX10) \/ is_bold
    THEN IF Len(block_text) < PdfShortLen
         THEN IF page = 1 /\ Len(emitted) >= 1
                   /\ emitted[Len(emitted)].style = "title"
              THEN "author"
              ELSE "heading"
         ELSE "paragraph"
    ELSE "paragraph"

\* parsers.py:88-89,114-115: a block is passed over when it is not a text
\* block or its cleaned text is empty or shorter than 3 characters.
PdfSkipped(block) ==
    \/ block.type # 0
    \/ BlockText(block) = <<>>
    \/ Len(BlockText(block)) < PdfMinLen

\* PdfBlock with the page counted from 0.
PdfBlock_page_from_zero(block, normal, page, emitted, id) ==
    IF PdfSkipped(block) THEN emitted
    ELSE Append(emitted,
                Passage(id, BlockText(block), page - 1,
                        PdfStyle(MaxFontSize(BlockSpans(block), 0), IsBold(block),
                                 BlockText(block), normal, page, emitted)))

\* parsers.py:87-141: one iteration of the block loop of pass 2: the passage
\* list after the block.
PdfBlock(block, normal, page, emitted, id) ==
    IF PdfSkipped(block) THEN emitted
    ELSE Append(emitted,
                Passage(id, BlockText(block), page,
                        PdfStyle(MaxFontSize(BlockSpans(block), 0), IsBold(block),
                                 BlockText(block), normal, page, emitted)))

\* The document fitz.open returned.
doc == file.pdf.content

\* parsers.py:61-65: open the document, start pass 1.
PdfOpen ==
    /\ pc = "parse_pdf"
    /\ file.pdf.valid
    /\ passages' = <<>>
    /\ all_font_sizes' = <<>>
    /\ page_num' = 1
    /\ pc' = "pdf_pass1"
    /\ UNCHANGED <<file_type, file, result, paragraphs, i, normal_size, block_num, uuid_ctr, upload_vars, suspended>>

\* parsers.py:63: fitz.open raises on bytes it cannot read; the exception
\* leaves parse_pdf and parse_document.
PdfOpenFails ==
    /\ pc = "parse_pdf"
    /\ ~file.pdf.valid
    /\ result' = "Exception"
    /\ pc' = "raised"
    /\ UNCHANGED <<file_type, file, paragraphs, i, all_font_sizes, normal_size, page_num, block_num, passages, uuid_ctr, upload_vars, suspended>>

\* parsers.py:66-75: pass 1 over one page.
PdfPass1Page ==
    /\ pc = "pdf_pass1"
    /\ page_num <= Len(doc)
    /\ all_font_sizes' = all_font_sizes \o PageFontSizes(doc[page_num])
    /\ page_num' = page_num + 1
    /\ UNCHANGED <<file_type, file, pc, result, paragraphs, i, normal_size, block_num, passages, uuid_ctr, upload_vars, suspended>>

\* parsers.py:77-84: the baseline, then pass 2 starts at page 1.
PdfNormalSize ==
    /\ pc = "pdf_pass1"
    /\ page_num > Len(doc)
    /\ normal_size' = NormalSize(all_font_sizes)
    /\ page_num' = 1
    /\ block_num' = 0
    /\ pc' = "pdf_pass2"
    /\ UNCHANGED <<file_type, file, result, paragraphs, i, all_font_sizes, passages, uuid_ctr, upload_vars, suspended>>

\* parsers.py:87-141: pass 2, one block.
PdfPass2Block ==
    /\ pc = "pdf_pass2"
    /\ page_num <= Len(doc)
    /\ block_num < Len(doc[page_num])
    /\ passages' = PdfBlock(doc[page_num][block_num + 1], normal_size, page_num,
                            passages, uuid_ctr)
    /\ uuid_ctr' = IF PdfSkipped(doc[page_num][block_num + 1]) THEN uuid_ctr
                   ELSE uuid_ctr + 1
    /\ block_num' = block_num + 1
    /\ UNCHANGED <<file_type, file, pc, result, paragraphs, i, all_font_sizes, normal_size, page_num, upload_vars, suspended>>

\* parsers.py:84: pass 2, the blocks of the page are exhausted: next page.
PdfPass2NextPage ==
    /\ pc = "pdf_pass2"
    /\ page_num <= Len(doc)
    /\ block_num = Len(doc[page_num])
    /\ page_num' = page_num + 1
    /\ block_num' = 0
    /\ UNCHANGED <<file_type, file, pc, result, paragraphs, i, all_font_sizes, normal_size, passages, uuid_ctr, upload_vars, suspended>>

\* parsers.py:143
PdfReturn ==
    /\ pc = "pdf_pass2"
    /\ page_num > Len(doc)
    /\ result' = passages
    /\ pc' = "done"
    /\ UNCHANGED <<file_type, file, paragraphs, i, all_font_sizes, normal_size, page_num, block_num, passages, uuid_ctr, upload_vars, suspended>>

(***************************************************************************)
(* parse_docx.  A document is the sequence doc.paragraphs; a paragraph is  *)
(* a record of its text and of its style: has_style is whether para.style  *)
(* is set, style_name is para.style.name.                                  *)
(***************************************************************************)
Para(text, has_style, style_name) ==
    [text |-> text, has_style |-> has_style, style_name |-> style_name]

\* str.startswith
startswith(s, prefix) ==
    Len(s) >= Len(prefix) /\ SubSeq(s, 1, Len(prefix)) = prefix

StyleTitle == <<"T", "i", "t", "l", "e">>
StyleHeading == <<"H", "e", "a", "d", "i", "n", "g">>
StyleSubtitle == <<"S", "u", "b", "t", "i", "t", "l", "e">>

\* parsers.py:161: para.style.name if para.style else ""
StyleName(para) == IF para.has_style THEN para.style_name ELSE <<>>

\* DocxStyle with a Subtitle always an author.
DocxStyle_subtitle_always_author(style_name, cleaned, emitted) ==
    IF style_name = StyleTitle THEN "title"
    ELSE IF startswith(style_name, StyleHeading) THEN "heading"
    ELSE IF style_name = StyleSubtitle
              \/ (emitted = <<>> /\ Len(cleaned) < DocxAuthorLen)
    THEN "author"
    ELSE "paragraph"

\* DocxStyle without the rule for a short paragraph that comes first.
DocxStyle_short_first_is_plain(style_name, cleaned, emitted) ==
    IF style_name = StyleTitle THEN "title"
    ELSE IF startswith(style_name, StyleHeading) THEN "heading"
    ELSE IF style_name = StyleSubtitle
    THEN (IF emitted = <<>> THEN "author" ELSE "heading")
    ELSE "paragraph"

\* parsers.py:163-170
DocxStyle(style_name, cleaned, emitted) ==
    IF style_name = StyleTitle THEN "title"
    ELSE IF startswith(style_name, StyleHeading) THEN "heading"
    ELSE IF style_name = StyleSubtitle
              \/ (emitted = <<>> /\ Len(cleaned) < DocxAuthorLen)
    THEN (IF emitted = <<>> THEN "author" ELSE "heading")
    ELSE "paragraph"

\* The inclusion filter with >= in place of >.
DocxIncluded_at_least_min(cleaned, style) ==
    Len(cleaned) >= DocxMinLen \/ style \in {"title", "heading", "author"}

\* parsers.py:173: the inclusion filter.
DocxIncluded(cleaned, style) ==
    Len(cleaned) > DocxMinLen \/ style \in {"title", "heading", "author"}

\* parsers.py:152-155: a paragraph whose stripped text is empty is skipped.
DocxSkipped(para) == strip(para.text) = <<>>

\* parsers.py:151-176: one iteration of the paragraph loop: the passage list
\* after the paragraph.
DocxPara(para, emitted, id) ==
    IF DocxSkipped(para) THEN emitted
    ELSE LET cleaned == strip(re_sub_ws(strip(para.text)))
             style   == DocxStyle(StyleName(para), cleaned, emitted)
         IN  IF DocxIncluded(cleaned, style)
             THEN Append(emitted, Passage(id, cleaned, None, style))
             ELSE emitted

\* The sequence doc.paragraphs of the document docx.Document returned.
docx_paragraphs == file.docx.content

\* parsers.py:148-149
DocxOpen ==
    /\ pc = "parse_docx"
    /\ file.docx.valid
    /\ passages' = <<>>
    /\ i' = 0
    /\ pc' = "docx_loop"
    /\ UNCHANGED <<file_type, file, result, paragraphs, all_font_sizes, normal_size, page_num, block_num, uuid_ctr, upload_vars, suspended>>

\* parsers.py:148: docx.Document raises on bytes it cannot read.
DocxOpenFails ==
    /\ pc = "parse_docx"
    /\ ~file.docx.valid
    /\ result' = "Exception"
    /\ pc' = "raised"
    /\ UNCHANGED <<file_type, file, paragraphs, i, all_font_sizes, normal_size, page_num, block_num, passages, uuid_ctr, upload_vars, suspended>>

\* parsers.py:151-176
DocxParagraph ==
    /\ pc = "docx_loop"
    /\ i < Len(docx_paragraphs)
    /\ passages' = DocxPara(docx_paragraphs[i + 1], passages, uuid_ctr)
    /\ uuid_ctr' = IF Len(passages') > Len(passages) THEN uuid_ctr + 1 ELSE uuid_ctr
    /\ i' = i + 1
    /\ UNCHANGED <<file_type, file, pc, result, paragraphs, all_font_sizes, normal_size, page_num, block_num, upload_vars, suspended>>

\* parsers.py:178
DocxReturn ==
    /\ pc = "docx_loop"
    /\ i = Len(docx_paragraphs)
    /\ result' = passages
    /\ pc' = "done"
    /\ UNCHANGED <<file_type, file, paragraphs, i, all_font_sizes, normal_size, page_num, block_num, passages, uuid_ctr, upload_vars, suspended>>

(***************************************************************************)
(* parse_document: the dispatch.                                           *)
(***************************************************************************)
\* The characters of the text a TLA+ string writes.
RECURSIVE tag_chars(_)
tag_chars(t) ==
    IF t = "" THEN <<>> ELSE <<SubSeq(t, 1, 1)>> \o tag_chars(SubSeq(t, 2, Len(t)))

\* The TLA+ string that writes the characters cs.
RECURSIVE tag_of(_)
tag_of(cs) == IF cs = <<>> THEN "" ELSE Head(cs) \o tag_of(Tail(cs))

\* parsers.py:198: file_type.lower(), of a format tag.
lower_tag(t) == tag_of(lower(tag_chars(t)))

\* parsers.py:192-196: the table of parsers, by the pc at which each starts.
parsers == [pdf |-> "parse_pdf", txt |-> "parse_txt", docx |-> "parse_docx"]

\* parsers.py:198,202
Dispatch ==
    /\ pc = "parse_document"
    /\ lower_tag(file_type) \in DOMAIN parsers
    /\ pc' = parsers[lower_tag(file_type)]
    /\ UNCHANGED <<file_type, file, result, paragraphs, i, all_font_sizes, normal_size, page_num, block_num, passages, uuid_ctr, upload_vars, suspended>>

\* parsers.py:199-200: raise ValueError
DispatchUnsupported ==
    /\ pc = "parse_document"
    /\ lower_tag(file_type) \notin DOMAIN parsers
    /\ result' = "ValueError"
    /\ pc' = "raised"
    /\ UNCHANGED <<file_type, file, paragraphs, i, all_font_sizes, normal_size, page_num, block_num, passages, uuid_ctr, upload_vars, suspended>>

parse_document ==
    \/ Dispatch \/ DispatchUnsupported
    \/ TxtSplit \/ TxtParagraph \/ TxtReturn
    \/ PdfOpen \/ PdfOpenFails \/ PdfPass1Page \/ PdfNormalSize
    \/ PdfPass2Block \/ PdfPass2NextPage \/ PdfReturn
    \/ DocxOpen \/ DocxOpenFails \/ DocxParagraph \/ DocxReturn

(***************************************************************************)
(* detect_file_type.                                                       *)
(***************************************************************************)
\* The components of a POSIX path: the runs of characters between slashes,
\* without the empty ones and the "." ones (pathlib drops both).
RECURSIVE path_parts(_, _, _)
path_parts(s, k, cur) ==
    LET done == IF cur = <<>> \/ cur = <<".">> THEN <<>> ELSE <<cur>>
    IN  IF k > Len(s) THEN done
        ELSE IF s[k] = "/" THEN done \o path_parts(s, k + 1, <<>>)
        ELSE path_parts(s, k + 1, Append(cur, s[k]))

\* Path(filename).name: the last component, or the empty string.
path_name(filename) ==
    LET parts == path_parts(filename, 1, <<>>)
    IN  IF parts = <<>> THEN <<>> ELSE parts[Len(parts)]

\* str.rfind('.') as a 1-based position, 0 when there is no dot.
rfind_dot(s) ==
    LET dots == {k \in 1..Len(s) : s[k] = "."}
    IN  IF dots = {} THEN 0 ELSE SetMax(dots)

\* Path(filename).suffix: with dot = name.rfind('.') (0-based),
\* name[dot:] if 0 < dot < len(name) - 1, else ''.
path_suffix(filename) ==
    LET name == path_name(filename)
        dot  == rfind_dot(name) - 1
    IN  IF 0 < dot /\ dot < Len(name) - 1 THEN SubSeq(name, dot + 1, Len(name))
        ELSE <<>>

\* parsers.py:214-219
ext_map ==
    (<<".", "p", "d", "f">> :> "pdf")
    @@ (<<".", "t", "x", "t">> :> "txt")
    @@ (<<".", "t", "e", "x", "t">> :> "txt")
    @@ (<<".", "d", "o", "c", "x">> :> "docx")

\* parsers.py:226-231
content_map ==
    ("application/pdf" :> "pdf")
    @@ ("application/x-pdf" :> "pdf")
    @@ ("text/plain" :> "txt")
    @@ ("application/vnd.openxmlformats-officedocument.wordprocessingml.document"
           :> "docx")

\* detect_file_type with the extension compared as written, not lower-cased.
detect_file_type_case_sensitive(filename, content_type) ==
    LET ext == path_suffix(filename)
    IN  IF ext \in DOMAIN ext_map THEN ext_map[ext]
        ELSE IF content_type # None /\ content_type # ""
        THEN (IF content_type \in DOMAIN content_map THEN content_map[content_type]
              ELSE None)
        ELSE None

\* parsers.py:205-234.  content_type is a string or None; `if content_type`
\* is false for None and for the empty string.
detect_file_type(filename, content_type) ==
    LET ext == lower(path_suffix(filename))
    IN  IF ext \in DOMAIN ext_map THEN ext_map[ext]
        ELSE IF content_type # None /\ content_type # ""
        THEN (IF content_type \in DOMAIN content_map THEN content_map[content_type]
              ELSE None)
        ELSE None

\* The call detect_file_type(file.filename, file.content_type) on its own.
DetectFileType ==
    /\ up_pc = "detect_file_type"
    /\ file_type' = detect_file_type(request.filename, request.content_type)
    /\ up_pc' = "detected"
    /\ UNCHANGED <<file, pc, result, paragraphs, i, all_font_sizes, normal_size, page_num, block_num, passages, uuid_ctr, request, out_path, uploads, responses, suspended, reading>>

(***************************************************************************)
(* upload_document.  A request is a record of file.filename (the empty     *)
(* string when missing), file.content_type and data, the bytes read from   *)
(* the upload: data.len is len(data) and data.file what the bytes hold     *)
(* (of data too large to spell out, data.file.bytes is the leading part).  *)
(***************************************************************************)
\* main.py:98
MAX_FILE_SIZE == MAX_UPLOAD_MB * 1024 * 1024

PdfMagic == <<"%", "P", "D", "F">>

\* main.py:250-259: the checks made before the data is read: the detail of
\* the HTTPException raised, or "ok".
EarlyCheck(req) ==
    IF req.filename = <<>> THEN "Missing filename."
    ELSE IF detect_file_type(req.filename, req.content_type) = None
    THEN "Unsupported file type. Please upload PDF, TXT, or DOCX."
    ELSE "ok"

\* LateCheck without the look at the first bytes of a PDF.
LateCheck_without_magic(type, data) ==
    IF data.len = 0 THEN "Empty file."
    ELSE IF data.len > MAX_FILE_SIZE THEN "File too large (max 50MB)."
    ELSE "ok"

\* main.py:263-270: the checks made on the data read, type being the
\* handler's file_type.
LateCheck(type, data) ==
    IF data.len = 0 THEN "Empty file."
    ELSE IF data.len > MAX_FILE_SIZE THEN "File too large (max 50MB)."
    ELSE IF type = "pdf" /\ ~startswith(data.file.bytes, PdfMagic)
    THEN "Invalid PDF file."
    ELSE "ok"

\* main.py:274: Path(file.filename).suffix.lower() or f".{file_type}"
SaveExt(req, type) ==
    IF lower(path_suffix(req.filename)) # <<>> THEN lower(path_suffix(req.filename))
    ELSE <<".">> \o tag_chars(type)

\* An HTTPException(status_code=400, detail=...) answered to the client.
ClientError(detail) == [status |-> 400, detail |-> detail]

\* main.py:284: the HTTPException whose detail is "Failed to parse document: "
\* followed by str(e), the message of the exception parse_document raised.
ParseError(e) == [status |-> 400, detail |-> "Failed to parse document: ", cause |-> e]

\* The file of UPLOADS_DIR at path.
FileAt(path) == CHOOSE f \in uploads : f.path = path

\* An unlink that removes nothing.
unlink_keeps_file(files, path) == files

\* Path.unlink(missing_ok=True)
unlink(files, path) == {f \in files : f.path # path}

\* The event loop runs no handler: the server has started and the handler
\* that ran last has answered or is suspended.
EventLoopIdle == up_pc \in {"serving", "responded", "reading"}

\* main.py:250-259: a check made before the data is read fails; the request
\* is answered at once.
UploadRejectUnread ==
    /\ up_pc = "upload_document"
    /\ EarlyCheck(request) # "ok"
    /\ responses' = Append(responses, ClientError(EarlyCheck(request)))
    /\ up_pc' = "responded"
    /\ UNCHANGED <<parse_vars, uuid_ctr, request, out_path, uploads, suspended, reading>>

\* main.py:254,262: the type is detected and the handler suspends at
\* `await file.read()`, with its locals; the event loop is free again.
UploadAwaitRead ==
    /\ up_pc = "upload_document"
    /\ EarlyCheck(request) = "ok"
    /\ file_type' = detect_file_type(request.filename, request.content_type)
    /\ reading' = Append(reading, [request |-> request, file_type |-> file_type'])
    /\ up_pc' = "reading"
    /\ UNCHANGED <<file, pc, result, paragraphs, i, all_font_sizes, normal_size, page_num, block_num, passages, uuid_ctr, request, out_path, uploads, responses, suspended>>

\* main.py:262: the data of one of the suspended handlers has been read; the
\* event loop resumes it.
UploadReadDone ==
    /\ EventLoopIdle
    /\ \E k \in 1..Len(reading) :
          /\ request' = reading[k].request
          /\ file_type' = reading[k].file_type
          /\ reading' = SubSeq(reading, 1, k - 1) \o SubSeq(reading, k + 1, Len(reading))
    /\ out_path' = <<>>
    /\ up_pc' = "read"
    /\ UNCHANGED <<file, pc, result, paragraphs, i, all_font_sizes, normal_size, page_num, block_num, passages, uuid_ctr, uploads, responses, suspended>>

\* main.py:263-270: a check of the data fails; the request is answered.
UploadReject ==
    /\ up_pc = "read"
    /\ LateCheck(file_type, request.data) # "ok"
    /\ responses' = Append(responses, ClientError(LateCheck(file_type, request.data)))
    /\ up_pc' = "responded"
    /\ UNCHANGED <<parse_vars, uuid_ctr, request, out_path, uploads, suspended, reading>>

\* main.py:272-276: the checks passed; the data is written to UPLOADS_DIR
\* under a fresh id.
UploadSave ==
    /\ up_pc = "read"
    /\ LateCheck(file_type, request.data) = "ok"
    /\ out_path' = <<uuid_ctr, SaveExt(request, file_type)>>
    /\ uuid_ctr' = uuid_ctr + 1
    /\ uploads' = uploads \cup {[path |-> out_path', data |-> request.data.file]}
    /\ up_pc' = "saved"
    /\ UNCHANGED <<parse_vars, request, responses, suspended, reading>>

\* main.py:280: parse_document(out_path, file_type) is called.
UploadParse ==
    /\ up_pc = "saved"
    /\ file' = FileAt(out_path).data
    /\ pc' = "parse_document"
    /\ result' = None
    /\ paragraphs' = <<>>
    /\ i' = 0
    /\ all_font_sizes' = <<>>
    /\ normal_size' = None
    /\ page_num' = 0
    /\ block_num' = 0
    /\ passages' = <<>>
    /\ up_pc' = "parsing"
    /\ UNCHANGED <<file_type, uuid_ctr, request, out_path, uploads, responses, suspended, reading>>

\* main.py:281-284: parse_document raised.
UploadParseFailed ==
    /\ up_pc = "parsing"
    /\ pc = "raised"
    /\ uploads' = unlink(uploads, out_path)
    /\ responses' = Append(responses, ParseError(result))
    /\ up_pc' = "responded"
    /\ UNCHANGED <<parse_vars, uuid_ctr, request, out_path, suspended, reading>>

\* main.py:286-288: parse_document returned no passage.
UploadNoContent ==
    /\ up_pc = "parsing"
    /\ pc = "done"
    /\ result = <<>>
    /\ uploads' = unlink(uploads, out_path)
    /\ responses' = Append(responses,
                           ClientError("No text content found in document."))
    /\ up_pc' = "responded"
    /\ UNCHANGED <<parse_vars, uuid_ctr, request, out_path, suspended, reading>>

\* main.py:290-304: the UploadResponse.
UploadRespond ==
    /\ up_pc = "parsing"
    /\ pc = "done"
    /\ result # <<>>
    /\ responses' = Append(responses,
                           [status |-> 200,
                            file_id |-> out_path[1],
                            filename |-> request.filename,
                            file_type |-> file_type,
                            passages |-> result,
                            pdf_url |-> IF file_type = "pdf" THEN out_path ELSE <<>>])
    /\ up_pc' = "responded"
    /\ UNCHANGED <<parse_vars, uuid_ctr, request, out_path, uploads, suspended, reading>>

(***************************************************************************)
(* Inputs: TXT files.                                                      *)
(***************************************************************************)
\* Pieces of text a TXT file is assembled from: lengths on both sides of the
\* thresholds 5, 80 and 100, and whitespace, ASCII and other, that
\* normalisation must remove: in the third piece the no-break space U+00A0,
\* the vertical tab U+000B, the em space and the ideographic space, around
\* the zero-width space U+200B, which is no whitespace to Python.  The first
\* two paragraphs of a file are any of them.
TxtPieces ==
    { <<"a", "b", "c", "d">>,
      <<" ", "a", "b", "\t", " ", "c", "d", " ">>,
      <<" ", "a", "U+200B", "", "U+2003", "c", "d", "U+3000">>,
      Rep("a", TxtAuthorLen - 1),
      Rep("a", TxtAuthorLen),
      Rep("a", TxtTitleLen - 1),
      Rep("a", TxtTitleLen) }

\* What stands between two pieces: a blank line, a line of whitespace
\* written with CRLF line ends, or a single line break.
TxtSeparators ==
    { <<"\n", "\n">>,
      <<"\r", "\n", " ", "", "\r", "\n">>,
      <<"\n">> }

\* The pieces of the third paragraph on, which no length threshold but the
\* minimum concerns: one below it and one that reaches it once normalised.
TxtLaterPieces ==
    { <<"a", "b", "c", "d">>,
      <<" ", "a", "U+200B", "", "U+2003", "c", "d", "U+3000">> }

RECURSIVE TxtJoin(_, _)
TxtJoin(ps, ss) ==
    IF Len(ps) = 0 THEN <<>>
    ELSE IF Len(ps) = 1 THEN ps[1]
    ELSE ps[1] \o ss[1] \o TxtJoin(Tail(ps), Tail(ss))

TxtFiles ==
    {<<>>, <<" ", "\n", "\n", "\t">>} \cup
    UNION { { TxtJoin(ps, ss) :
                  ps \in {f \in [1..n -> TxtPieces] :
                             \A k \in 3..n : f[k] \in TxtLaterPieces},
                  ss \in [1..(n-1) -> TxtSeparators] }
            : n \in 1..MaxParas }

(***************************************************************************)
(* Inputs: PDF documents.                                                  *)
(***************************************************************************)
\* The blocks a modelled document is assembled from.  Sizes 10, 11, 12 and
\* 15 give the ratios 1, 1.1, 1.2, 1.25 and 1.5; texts are on both sides of
\* the lengths 3 and 100; some are bold.  Two blocks hold five sizes once
\* each, which makes the set of sizes grow its table: in the second, 42 and
\* 10 meet in one slot of the grown table.  The first two blocks of a
\* document are any of them.
PdfBlocks ==
    { TextBlock(<< <<Span(<<"T", "i", "t", "l", "e">>, 15, 0)>> >>),
      TextBlock(<< <<Span(<<"B", "y", " ", "m", "e">>, 10, 16)>> >>),
      TextBlock(<< <<Span(Rep("a", PdfShortLen), 10, 0)>> >>),
      TextBlock(<< <<Span(Rep("b", PdfShortLen - 1), 12, 4)>> >>),
      TextBlock(<< <<Span(Rep("c", PdfShortLen), 15, 20)>> >>),
      TextBlock(<< <<Span(Rep("d", PdfShortLen), 12, 0)>> >>),
      TextBlock(<< <<Span(<<"n", "o", "t", "e">>, 11, 2)>> >>),
      TextBlock(<< <<Span(<<" ", "a", "b">>, 10, 0), Span(<<"c", " ">>, 15, 0)>>,
                   <<Span(<<"\t", "d", "e", "\n">>, 10, 0)>> >>),
      TextBlock(<< <<Span(<<"a", " ", "\n">>, 10, 0)>>,
                   <<Span(<<"U+2028", "b">>, 10, 0)>> >>),
      TextBlock(<< <<Span(<<"z", "e", "r", "o">>, 0, 0)>> >>),
      TextBlock(<< <<Span(<<" ", "">>, 12, 0), Span(<<"x", "y">>, 12, 16)>> >>),
      TextBlock(<< <<Span(<<"v">>, 10, 0), Span(<<"w">>, 11, 0), Span(<<"x">>, 12, 0),
                     Span(<<"y">>, 14, 0), Span(<<"z">>, 18, 0)>> >>),
      TextBlock(<< <<Span(<<"p">>, 42, 0), Span(<<"q">>, 10, 0), Span(<<"r">>, 11, 0),
                     Span(<<"s">>, 12, 0), Span(<<"t">>, 13, 0)>> >>),
      ImageBlock }

\* The blocks of the third block on.
PdfLaterBlocks ==
    { TextBlock(<< <<Span(<<"T", "i", "t", "l", "e">>, 15, 0)>> >>),
      TextBlock(<< <<Span(Rep("a", PdfShortLen), 10, 0)>> >>),
      ImageBlock }

\* The documents of the blocks bs: every way of cutting the block sequence
\* into pages.  cuts is the set of k such that a new page starts before block
\* k + 1; with 0 in cuts the document starts with an empty page.
RECURSIVE PdfPages(_, _, _, _)
PdfPages(bs, cuts, k, pages) ==
    IF k > Len(bs) THEN pages
    ELSE LET pgs == IF (k - 1) \in cuts THEN Append(pages, <<>>) ELSE pages
         IN  PdfPages(bs, cuts, k + 1,
                      [pgs EXCEPT ![Len(pgs)] = Append(@, bs[k])])

PdfDocs ==
    { <<>> } \cup
    UNION { { PdfPages(bs, cuts, 1, << <<>> >>) :
                  bs \in {f \in [1..n -> PdfBlocks] :
                             \A k \in 3..n : f[k] \in PdfLaterBlocks},
                  cuts \in SUBSET (0..(n - 1)) }
            : n \in 0..MaxBlocks }

(***************************************************************************)
(* Inputs: DOCX documents.                                                 *)
(***************************************************************************)
StyleNormal == <<"N", "o", "r", "m", "a", "l">>

DocxParas ==
    { Para(<<"M", "y", " ", "T", "i", "t", "l", "e">>, TRUE, StyleTitle),
      Para(<<"T">>, TRUE, StyleTitle),
      Para(<<"C", "h", " ", "1">>, TRUE, StyleHeading \o <<" ", "1">>),
      Para(<<"S", "u", "b">>, TRUE, StyleSubtitle),
      Para(Rep("a", DocxAuthorLen - 1), TRUE, StyleNormal),
      Para(Rep("a", DocxAuthorLen), TRUE, StyleNormal),
      Para(<<"a", "b", "c", "d", "e">>, TRUE, StyleNormal),
      Para(<<" ", "a", "b", " ", "", "c", "d", "e", "U+2029">>, FALSE, <<>>),
      Para(<<" ", "\t", "U+3000">>, TRUE, StyleNormal),
      Para(<<"h", "e", "a", "d">>, TRUE, <<"h", "e", "a", "d", "i", "n", "g", " ", "1">>) }

\* The paragraphs of the third paragraph on.
DocxLaterParas ==
    { Para(<<"S", "u", "b">>, TRUE, StyleSubtitle),
      Para(<<"a", "b", "c", "d", "e">>, TRUE, StyleNormal),
      Para(<<" ", "\t", "U+3000">>, TRUE, StyleNormal) }

DocxDocs ==
    UNION { {f \in [1..n -> DocxParas] : \A k \in 3..n : f[k] \in DocxLaterParas}
            : n \in 0..MaxDocxParas }

(***************************************************************************)
(* The extractor alone: parse_document called on a file of each format.    *)
(***************************************************************************)
InitLocals ==
    /\ paragraphs = <<>>
    /\ i = 0
    /\ all_font_sizes = <<>>
    /\ normal_size = None
    /\ page_num = 0
    /\ block_num = 0
    /\ passages = <<>>
    /\ result = None

\* No upload is in progress.
NoUpload ==
    /\ request = None
    /\ up_pc = "none"
    /\ out_path = <<>>
    /\ uploads = {}
    /\ responses = <<>>
    /\ reading = <<>>

\* No other invocation of parse_document is in progress.
NoneSuspended == suspended = <<>>

\* The bytes of a file that is not plain text stay abstract.
Binary == <<"?">>

ParseInputs ==
    { [type |-> "txt", file |-> File(t, Unreadable, Unreadable)] : t \in TxtFiles }
    \cup { [type |-> "pdf", file |-> File(Binary, Readable(d), Unreadable)] : d \in PdfDocs }
    \cup { [type |-> "docx", file |-> File(Binary, Unreadable, Readable(d))] : d \in DocxDocs }
    \cup { [type |-> t, file |-> File(Binary, Unreadable, Unreadable)] :
             t \in {"pdf", "docx", "PDF", "Txt", "DOCX", "rtf", "",
                    "TXT", "Pdf", "pDf", "Docx", "pdf ", "PDÉ"} }

Init ==
    /\ \E inp \in ParseInputs : file_type = inp.type /\ file = inp.file
    /\ pc = "parse_document"
    /\ InitLocals
    /\ uuid_ctr = 1
    /\ NoUpload
    /\ NoneSuspended

Next == parse_document

Spec == Init /\ [][Next]_vars

(***************************************************************************)
(* detect_file_type alone.                                                 *)
(***************************************************************************)
NamePrefixes ==
    { <<>>, <<"a">>, <<"d", "/">>, <<"a", ".", "b">>, <<".">> }
NameExtensions ==
    { <<>>, <<".", "p", "d", "f">>, <<".", "P", "D", "F">>, <<".", "P", "d", "f">>,
      <<".", "t", "x", "t">>, <<".", "t", "e", "x", "t">>, <<".", "T", "E", "X", "T">>,
      <<".", "d", "o", "c", "x">>, <<".", "D", "o", "c", "X">>, <<".", "d", "o", "c">>,
      <<".", "b", "i", "n">>, <<".", "p", "d">>, <<".", "É">>,
      <<".", "P", "D", "U+0130">> }
NameTails ==
    { <<>>, <<".">>, <<"/">>, <<"/", ".">>, <<"/", "x">>, <<".", "g", "z">>, <<" ">> }

Filenames ==
    { p \o e \o t : p \in NamePrefixes, e \in NameExtensions, t \in NameTails }

ContentTypes ==
    { None, "", "application/pdf", "application/x-pdf", "text/plain",
      "application/vnd.openxmlformats-officedocument.wordprocessingml.document",
      "text/plain; charset=utf-8", "TEXT/PLAIN", "image/png" }

NoParse ==
    /\ file = File(<<>>, Unreadable, Unreadable)
    /\ pc = "idle"
    /\ InitLocals

InitDetect ==
    /\ request \in { [filename |-> f, content_type |-> c] :
                        f \in Filenames, c \in ContentTypes }
    /\ up_pc = "detect_file_type"
    /\ file_type = "unset"
    /\ NoParse
    /\ uuid_ctr = 1
    /\ out_path = <<>>
    /\ uploads = {}
    /\ responses = <<>>
    /\ reading = <<>>
    /\ NoneSuspended

NextDetect == DetectFileType

SpecDetect == InitDetect /\ [][NextDetect]_vars

(***************************************************************************)
(* The upload handler, with the extractor it calls.                        *)
(***************************************************************************)
Data(len, f) == [len |-> len, file |-> f]
Whole(f) == Data(Len(f.bytes), f)

TxtHello == File(<<"H", "e", "l", "l", "o", " ", "w", "o", "r", "l", "d">>,
                 Unreadable, Unreadable)
TxtBlank == File(<<" ", "\n", "\n", "\t">>, Unreadable, Unreadable)
TxtHi == File(<<"H", "i">>, Unreadable, Unreadable)
PdfTitleBody ==
    File(PdfMagic \o <<"?">>,
         Readable(<< << TextBlock(<< <<Span(<<"T", "i", "t", "l", "e">>, 15, 0)>> >>),
                        TextBlock(<< <<Span(Rep("a", PdfShortLen), 10, 0)>> >>) >> >>),
         Unreadable)
PdfImages == File(PdfMagic \o <<"?">>, Readable(<< <<ImageBlock>> >>), Unreadable)
PdfCorrupt == File(PdfMagic \o <<"?">>, Unreadable, Unreadable)
DocxTitled ==
    File(<<"P", "K", "?">>, Unreadable,
         Readable(<< Para(<<"M", "y", " ", "T", "i", "t", "l", "e">>, TRUE,
                          <<"T", "i", "t", "l", "e">>) >>))
DocxBlank == File(<<"P", "K", "?">>, Unreadable, Readable(<<>>))

Request(filename, content_type, data) ==
    [filename |-> filename, content_type |-> content_type, data |-> data]

NameTxt == <<"a", ".", "t", "x", "t">>
NamePdf == <<"a", ".", "P", "D", "F">>
NameDocx == <<"a", ".", "d", "o", "c", "x">>
NameBin == <<"x", ".", "b", "i", "n">>

UploadRequests ==
    { Request(<<>>, None, Whole(TxtHello)),
      Request(NameBin, None, Whole(TxtHello)),
      Request(NameBin, "text/plain", Whole(TxtHello)),
      Request(<<"a", ".", "É">>, "text/plain", Whole(TxtHello)),
      Request(<<"a", ".", "A", "U+03A3">>, "text/plain", Whole(TxtHello)),
      Request(NameTxt, None, Whole(TxtHello)),
      Request(NameTxt, None, Whole(TxtBlank)),
      Request(NameTxt, None, Whole(TxtHi)),
      Request(NameTxt, None, Data(0, File(<<>>, Unreadable, Unreadable))),
      Request(NameTxt, None, Data(MAX_FILE_SIZE, TxtHello)),
      Request(NameTxt, None, Data(MAX_FILE_SIZE + 1, TxtHello)),
      Request(NamePdf, None, Whole(PdfTitleBody)),
      Request(NamePdf, None, Whole(PdfImages)),
      Request(NamePdf, None, Whole(PdfCorrupt)),
      Request(NamePdf, None, Whole(TxtHello)),
      Request(<<"a">>, "application/pdf", Whole(PdfTitleBody)),
      Request(NameDocx, None, Whole(DocxTitled)),
      Request(NameDocx, None, Whole(DocxBlank)),
      Request(NameDocx, None, Whole(TxtHello)) }

\* A request arrives while the event loop is idle, and its handler starts.
\* The requests that have arrived are the ones answered and the ones whose
\* handler is suspended.
UploadArrives ==
    /\ EventLoopIdle
    /\ Len(responses) + Len(reading) < MaxUploads
    /\ request' \in UploadRequests
    /\ out_path' = <<>>
    /\ up_pc' = "upload_document"
    /\ UNCHANGED <<parse_vars, uuid_ctr, uploads, responses, suspended, reading>>

\* main.py:106-114: _clear_uploads() removes every file of UPLOADS_DIR.
_clear_uploads(files) == {}

\* main.py:138-143: lifespan, before the server takes requests.
Startup ==
    /\ up_pc = "startup"
    /\ uploads' = _clear_uploads(uploads)
    /\ up_pc' = "serving"
    /\ UNCHANGED <<parse_vars, uuid_ctr, request, out_path, responses, suspended, reading>>

\* main.py:144-146: lifespan, once the server has stopped taking requests
\* and no request is in flight.
Shutdown ==
    /\ EventLoopIdle
    /\ reading = <<>>
    /\ uploads' = _clear_uploads(uploads)
    /\ up_pc' = "stopped"
    /\ UNCHANGED <<parse_vars, uuid_ctr, request, out_path, responses, suspended, reading>>

\* The server is about to start; UPLOADS_DIR is empty or holds a file that a
\* run of the server that did not shut down has left.
InitUpload ==
    /\ request = None
    /\ up_pc = "startup"
    /\ out_path = <<>>
    /\ uploads \in {{}, {[path |-> <<0, <<".", "t", "x", "t">> >>, data |-> TxtHello]}}
    /\ responses = <<>>
    /\ reading = <<>>
    /\ file_type = "unset"
    /\ NoParse
    /\ uuid_ctr = 1
    /\ NoneSuspended

upload_document ==
    \/ UploadRejectUnread \/ UploadAwaitRead \/ UploadReadDone
    \/ UploadReject \/ UploadSave \/ UploadParse \/ UploadParseFailed
    \/ UploadNoContent \/ UploadRespond

NextUpload ==
    \/ Startup
    \/ Shutdown
    \/ UploadArrives
    \/ upload_document
    \/ (up_pc = "parsing" /\ parse_document)

SpecUpload == InitUpload /\ [][NextUpload]_vars

(***************************************************************************)
(* Two invocations of parse_document in two threads.  The arguments and    *)
(* the locals of an invocation (parsers.py:42-45, 61-65, 148-149 create    *)
(* them inside the function) are in its frame; the module holds no         *)
(* variable an invocation writes.  The running thread's frame is in the    *)
(* variables of parse_document, the other frames are in suspended; a       *)
(* thread switch exchanges the two.  uuid.uuid4() serves both threads.     *)
(***************************************************************************)
\* The frame of a call parse_document(file_path, type), before its first step.
Call(type, f) ==
    [file_type |-> type, file |-> f, pc |-> "parse_document", result |-> None,
     paragraphs |-> <<>>, i |-> 0, all_font_sizes |-> <<>>, normal_size |-> None,
     page_num |-> 0, block_num |-> 0, passages |-> <<>>]

\* The frame of the running invocation.
Frame ==
    [file_type |-> file_type, file |-> file, pc |-> pc, result |-> result,
     paragraphs |-> paragraphs, i |-> i, all_font_sizes |-> all_font_sizes,
     normal_size |-> normal_size, page_num |-> page_num, block_num |-> block_num,
     passages |-> passages]

\* A resumption that leaves the passage list as the other thread has it: one
\* list shared by the invocations.
Resume_shared_passages(f) ==
    /\ file_type' = f.file_type
    /\ file' = f.file
    /\ pc' = f.pc
    /\ result' = f.result
    /\ paragraphs' = f.paragraphs
    /\ i' = f.i
    /\ all_font_sizes' = f.all_font_sizes
    /\ normal_size' = f.normal_size
    /\ page_num' = f.page_num
    /\ block_num' = f.block_num
    /\ passages' = passages

\* The invocation of frame f runs next, with all of its locals.
Resume(f) ==
    /\ file_type' = f.file_type
    /\ file' = f.file
    /\ pc' = f.pc
    /\ result' = f.result
    /\ paragraphs' = f.paragraphs
    /\ i' = f.i
    /\ all_font_sizes' = f.all_font_sizes
    /\ normal_size' = f.normal_size
    /\ page_num' = f.page_num
    /\ block_num' = f.block_num
    /\ passages' = f.passages

Finished(f) == f.pc \in {"done", "raised"}

\* The scheduler runs another thread whose invocation has not returned.
ThreadSwitch ==
    /\ \E k \in 1..Len(suspended) :
          /\ ~Finished(suspended[k])
          /\ Resume(suspended[k])
          /\ suspended' = [suspended EXCEPT ![k] = Frame]
    /\ UNCHANGED <<uuid_ctr, upload_vars>>

\* A PDF whose only long text is at size 15, with a short bold block at size
\* 10 on its second page.
PdfLargeBody ==
    File(PdfMagic \o <<"?">>,
         Readable(<< << TextBlock(<< <<Span(Rep("c", PdfShortLen), 15, 20)>> >>) >>,
                     << TextBlock(<< <<Span(<<"B", "y", " ", "m", "e">>, 10, 16)>> >>) >> >>),
         Unreadable)

TxtTwoParas ==
    File(<<"H", "e", "l", "l", "o", "\n", "\n", "w", "o", "r", "l", "d">>,
         Unreadable, Unreadable)

\* The calls two independent uploads make.
ThreadCalls ==
    { Call("pdf", PdfTitleBody), Call("PDF", PdfLargeBody), Call("pdf", PdfCorrupt),
      Call("txt", TxtTwoParas), Call("docx", DocxTitled), Call("docx", TxtHello),
      Call("rtf", TxtHello) }

InitThreads ==
    /\ \E c \in ThreadCalls : file_type = c.file_type /\ file = c.file
    /\ pc = "parse_document"
    /\ InitLocals
    /\ suspended \in {<<c>> : c \in ThreadCalls}
    /\ uuid_ctr = 1
    /\ NoUpload

NextThreads ==
    \/ parse_document
    \/ ThreadSwitch

SpecThreads == InitThreads /\ [][NextThreads]_vars

(***************************************************************************)
(* Properties.                                                             *)
(***************************************************************************)
\* The characters Unicode gives the White_Space property or a bidirectional
\* class of B, S or WS: the ASCII blanks and controls (the second line holds
\* U+000B and U+001C..U+001F), NEL and NBSP, the spaces of the general
\* category Zs, and the line and paragraph separators.
RefWhitespace ==
    {" ", "\t", "\n", "\r", "\f"}
        \cup {"", "", "", "", ""}
        \cup {"", " "}
        \cup {"U+1680", "U+202F", "U+205F", "U+3000"}
        \cup {"U+2000", "U+2001", "U+2002", "U+2003", "U+2004", "U+2005",
              "U+2006", "U+2007", "U+2008", "U+2009", "U+200A"}
        \cup {"U+2028", "U+2029"}

RECURSIVE SortedSeq(_)
SortedSeq(S) ==
    IF S = {} THEN <<>> ELSE <<SetMin(S)>> \o SortedSeq(S \ {SetMin(S)})

\* ---- detect_file_type ----
\* e is the extension of name: the part from its last dot on, when that dot
\* is neither the first nor the last character of name.
RefIsExtension(name, e) ==
    \E k \in 2..(Len(name) - 1) :
        /\ e = SubSeq(name, k, Len(name))
        /\ name[k] = "."
        /\ \A j \in (k + 1)..Len(name) : name[j] # "."

\* The letters of the extensions, in upper and in lower case.
RefUpperCase == <<"P", "D", "F", "T", "X", "E", "O", "C">>
RefLowerCase == <<"p", "d", "f", "t", "x", "e", "o", "c">>

\* e reads as target when case is ignored (target is in lower case).
RefSameIgnoringCase(e, target) ==
    /\ Len(e) = Len(target)
    /\ \A k \in 1..Len(e) :
          \/ e[k] = target[k]
          \/ \E n \in 1..Len(RefLowerCase) :
                RefLowerCase[n] = target[k] /\ RefUpperCase[n] = e[k]

RefExtensionTable ==
    { <<<<".", "p", "d", "f">>, "pdf">>, <<<<".", "t", "x", "t">>, "txt">>,
      <<<<".", "t", "e", "x", "t">>, "txt">>, <<<<".", "d", "o", "c", "x">>, "docx">> }

RefContentTypeTable ==
    { <<"application/pdf", "pdf">>, <<"application/x-pdf", "pdf">>,
      <<"text/plain", "txt">>,
      <<"application/vnd.openxmlformats-officedocument.wordprocessingml.document",
        "docx">> }

\* The formats the extension of the filename maps to (one or none).
RefByExtension(filename) ==
    { row[2] : row \in { r \in RefExtensionTable :
                 \E k \in 1..Len(path_name(filename)) :
                    LET e == SubSeq(path_name(filename), k, Len(path_name(filename)))
                    IN  RefIsExtension(path_name(filename), e)
                           /\ RefSameIgnoringCase(e, r[1]) } }

RefByContentType(content_type) ==
    { row[2] : row \in { r \in RefContentTypeTable : r[1] = content_type } }

RefDetect(filename, content_type) ==
    IF RefByExtension(filename) # {} THEN CHOOSE t \in RefByExtension(filename) : TRUE
    ELSE IF RefByContentType(content_type) # {}
    THEN CHOOSE t \in RefByContentType(content_type) : TRUE
    ELSE None

\* C1: detect_file_type returns the format of the filename's extension
\* (compared ignoring case) whatever the content-type is; failing that, the
\* format of the content-type when it is exactly an entry of the table;
\* failing that, None.
C1_DetectMatchesReference ==
    up_pc = "detected" =>
        file_type = RefDetect(request.filename, request.content_type)

\* An upper-case extension wins over a content-type of another format.
C1_Witness ==
    /\ up_pc = "detected"
    /\ request.filename = <<"a", ".", "P", "D", "F">>
    /\ request.content_type = "text/plain"
    /\ file_type = "pdf"

\* ---- plain text ----
IsTxtRun == lower_tag(file_type) = "txt" /\ pc \in {"txt_loop", "done"}

\* C2: in parse_txt the first passage is a title if shorter than 100 and a
\* paragraph otherwise; the second is an author if shorter than 80 and the
\* first is a title, and a paragraph otherwise; every later one is a paragraph.
C2_TxtStyles ==
    IsTxtRun =>
        \A k \in 1..Len(passages) :
            passages[k].style =
                IF k = 1
                THEN (IF Len(passages[1].text) < 100 THEN "title" ELSE "paragraph")
                ELSE IF k = 2
                THEN (IF Len(passages[2].text) < 80 /\ passages[1].style = "title"
                      THEN "author" ELSE "paragraph")
                ELSE "paragraph"

\* A short third paragraph after a title and an author is a plain paragraph.
C2_Witness ==
    /\ IsTxtRun /\ pc = "done"
    /\ Len(result) = 3
    /\ result[1].style = "title"
    /\ result[2].style = "author"
    /\ result[3].style = "paragraph"
    /\ Len(result[3].text) < 80

\* The words of t: the maximal runs of characters that are not whitespace,
\* by the position of their first character.
RefWordStarts(t) ==
    {k \in 1..Len(t) : t[k] \notin RefWhitespace
                          /\ (k = 1 \/ t[k - 1] \in RefWhitespace)}

RefWordEnd(t, k) ==
    LET after == {j \in k..Len(t) : t[j] \in RefWhitespace}
    IN  IF after = {} THEN Len(t) ELSE SetMin(after) - 1

\* The whitespace before the word at k holds at least two newlines, or the
\* word is the first of the text: the word starts a paragraph.
RefStartsParagraph(t, k) ==
    LET before == {j \in 1..(k - 1) : t[j] \notin RefWhitespace}
        from   == IF before = {} THEN 1 ELSE SetMax(before) + 1
    IN  \/ before = {}
        \/ Cardinality({j \in from..(k - 1) : t[j] = "\n"}) >= 2

RECURSIVE RefJoinWords(_, _)
RefJoinWords(t, starts) ==
    IF starts = <<>> THEN <<>>
    ELSE SubSeq(t, Head(starts), RefWordEnd(t, Head(starts)))
            \o (IF Len(starts) > 1 THEN <<" ">> ELSE <<>>)
            \o RefJoinWords(t, Tail(starts))

\* The paragraphs of t, each as its words joined by single spaces.
RefParagraphs(t) ==
    LET words  == RefWordStarts(t)
        starts == SortedSeq({k \in words : RefStartsParagraph(t, k)})
        next(n) == IF n < Len(starts) THEN starts[n + 1] ELSE Len(t) + 1
    IN  [n \in 1..Len(starts) |->
            RefJoinWords(t, SortedSeq({w \in words : starts[n] <= w /\ w < next(n)}))]

RefLongEnough(p) == Len(p) >= 5

\* C3: the texts parse_txt returns are the paragraphs of the file (split at
\* blank lines, whitespace-normalized) of length 5 or more, in order.
C3_TxtKeepsParagraphs ==
    (IsTxtRun /\ pc = "done") =>
        [k \in 1..Len(result) |-> result[k].text]
            = SelectSeq(RefParagraphs(read_text(file.bytes)), RefLongEnough)

\* A paragraph of 4 characters is dropped and two longer ones are kept.
C3_Witness ==
    /\ IsTxtRun /\ pc = "done"
    /\ Len(result) = 2
    /\ \E n \in 1..Len(RefParagraphs(read_text(file.bytes))) :
          Len(RefParagraphs(read_text(file.bytes))[n]) = 4
    /\ Len(result[1].text) = 5

RefSingleLine(text) ==
    text # <<>> /\ \A k \in 1..Len(text) : text[k] \notin {"\n", "\r"}

\* C4, as stated: a text with at least one paragraph yields at least one
\* passage, each with non-empty single-line text.
C4_AnyParagraphYieldsPassage ==
    (IsTxtRun /\ pc = "done" /\ RefParagraphs(read_text(file.bytes)) # <<>>) =>
        /\ Len(result) >= 1
        /\ \A k \in 1..Len(result) : RefSingleLine(result[k].text)

\* C4, amended: a text with at least one paragraph of normalized length 5 or
\* more yields at least one passage, and every passage returned has
\* non-empty single-line text.
C4_LongParagraphYieldsPassage ==
    (IsTxtRun /\ pc = "done") =>
        /\ (\E n \in 1..Len(RefParagraphs(read_text(file.bytes))) :
               RefLongEnough(RefParagraphs(read_text(file.bytes))[n]))
              => Len(result) >= 1
        /\ \A k \in 1..Len(result) : RefSingleLine(result[k].text)

\* A file whose only long paragraph spans two lines yields one passage.
C4_Witness ==
    /\ IsTxtRun /\ pc = "done"
    /\ Len(result) = 1
    /\ \E k \in 1..Len(file.bytes) : file.bytes[k] = "\n"
    /\ Len(RefParagraphs(read_text(file.bytes))) = 1

\* ---- PDF styles ----
\* The block pass 2 has just handled, when it retained it: the last passage
\* is the block's.
PdfJustRetained ==
    /\ lower_tag(file_type) = "pdf"
    /\ pc = "pdf_pass2"
    /\ block_num >= 1
    /\ ~PdfSkipped(doc[page_num][block_num])

\* The spans of a block, each by its line and its place in the line.
RefSpans(block) ==
    UNION {{<<l, k>> : k \in 1..Len(block.lines[l])} : l \in 1..Len(block.lines)}

RefBlockMaxSize(block) ==
    SetMax({0} \cup {block.lines[lk[1]][lk[2]].size : lk \in RefSpans(block)})

RefBlockBold(block) ==
    \E lk \in RefSpans(block) :
        (block.lines[lk[1]][lk[2]].flags % 32) >= 16

\* size_ratio >= num/den, the ratio being 1 when the normal size is 0.
RefRatioAtLeast(block, num, den) ==
    IF normal_size = 0 THEN den >= num
    ELSE den * RefBlockMaxSize(block) >= num * normal_size

\* C5: a retained PDF block with size_ratio >= 1.5 is a title whatever its
\* boldness and length; one with size_ratio < 1.2 that is not bold is a
\* paragraph; one with size_ratio < 1.5 that is bold or has size_ratio >= 1.2
\* and whose text has 100 characters or more is a paragraph.
C5_PdfStyles ==
    PdfJustRetained =>
        LET block == doc[page_num][block_num]
            last  == passages[Len(passages)]
            ge15  == RefRatioAtLeast(block, 3, 2)
            ge12  == RefRatioAtLeast(block, 6, 5)
            bold  == RefBlockBold(block)
        IN  /\ ge15 => last.style = "title"
            /\ (~ge12 /\ ~bold) => last.style = "paragraph"
            /\ (~ge15 /\ (bold \/ ge12) /\ Len(last.text) >= 100)
                  => last.style = "paragraph"

\* A bold block of 100 characters at exactly 1.5 times the normal size is a
\* title.
C5_Witness ==
    /\ PdfJustRetained
    /\ normal_size > 0
    /\ 2 * RefBlockMaxSize(doc[page_num][block_num]) = 3 * normal_size
    /\ RefBlockBold(doc[page_num][block_num])
    /\ Len(passages[Len(passages)].text) >= 100
    /\ passages[Len(passages)].style = "title"

\* ---- DOCX styles ----
RefDocxStyle(name, length, emitted_before) ==
    CASE name = <<"T", "i", "t", "l", "e">> -> "title"
      [] name # <<"T", "i", "t", "l", "e">>
           /\ Len(name) >= 7
           /\ SubSeq(name, 1, 7) = <<"H", "e", "a", "d", "i", "n", "g">> -> "heading"
      [] OTHER ->
           IF name = <<"S", "u", "b", "t", "i", "t", "l", "e">>
                 \/ (emitted_before = 0 /\ length < 80)
           THEN (IF emitted_before = 0 THEN "author" ELSE "heading")
           ELSE "paragraph"

\* The step of parse_docx over one paragraph, when it emits a passage.
DocxEmits ==
    /\ lower_tag(file_type) = "docx"
    /\ pc = "docx_loop"
    /\ i' = i + 1
    /\ Len(passages') = Len(passages) + 1

\* C6: the style of a passage parse_docx emits follows from the paragraph's
\* style name and the number of passages emitted before it: Title gives
\* title; a name starting with Heading gives heading; otherwise Subtitle, or
\* a text shorter than 80 while nothing has been emitted, gives author when
\* nothing has been emitted and heading otherwise; anything else paragraph.
C6_DocxStyles ==
    [][DocxEmits =>
          passages'[Len(passages')].style =
              RefDocxStyle(IF docx_paragraphs[i'].has_style
                           THEN docx_paragraphs[i'].style_name ELSE <<>>,
                           Len(passages'[Len(passages')].text),
                           Len(passages))]_vars

\* A Subtitle after an emitted passage has become a heading.
C6_Witness ==
    /\ lower_tag(file_type) = "docx"
    /\ pc = "docx_loop"
    /\ i >= 2
    /\ docx_paragraphs[i].has_style
    /\ docx_paragraphs[i].style_name = <<"S", "u", "b", "t", "i", "t", "l", "e">>
    /\ Len(passages) >= 2
    /\ passages[Len(passages)].style = "heading"
    /\ passages[Len(passages)].text = strip(re_sub_ws(docx_paragraphs[i].text))

\* ---- passage text ----
RefNormalized(text) ==
    /\ text # <<>>
    /\ \A k \in 1..Len(text) : text[k] \notin (RefWhitespace \ {" "})
    /\ text[1] # " "
    /\ text[Len(text)] # " "
    /\ \A k \in 1..(Len(text) - 1) : ~(text[k] = " " /\ text[k + 1] = " ")

\* C8: every passage of every strategy has non-empty text with no leading or
\* trailing whitespace and no whitespace other than single spaces.
C8_TextNormalized ==
    \A k \in 1..Len(passages) : RefNormalized(passages[k].text)

\* A PDF block whose spans and lines hold tabs, newlines and outer spaces has
\* come out as words separated by single spaces.
C8_Witness ==
    /\ lower_tag(file_type) = "pdf"
    /\ pc = "done"
    /\ \E k \in 1..Len(result) : result[k].text = <<"a", "b", "c", " ", "d", "e">>
    /\ \E p \in 1..Len(doc) : \E b \in 1..Len(doc[p]) :
          /\ doc[p][b].type = 0
          /\ \E lk \in RefSpans(doc[p][b]) :
                \E c \in 1..Len(doc[p][b].lines[lk[1]][lk[2]].text) :
                    doc[p][b].lines[lk[1]][lk[2]].text[c] \in {"\t", "\n"}

\* ---- pages ----
\* The retained blocks of page p, in the order of the page, as texts.
RefPageTexts(p) ==
    LET kept(b) == ~PdfSkipped(b)
    IN  [b \in 1..Len(SelectSeq(doc[p], kept)) |-> BlockText(SelectSeq(doc[p], kept)[b])]

IsOnPage(p) == LET on(psg) == psg.page = p IN SelectSeq(passages, on)

\* C9: a PDF passage carries the 1-indexed number of its block's page, pages
\* do not decrease along the sequence and the blocks of a page keep their
\* order; TXT and DOCX passages have no page.
C9_PageOrder ==
    /\ (lower_tag(file_type) = "pdf" /\ pc \in {"pdf_pass2", "done"}) =>
          /\ \A k \in 1..Len(passages) : passages[k].page \in 1..Len(doc)
          /\ \A k \in 1..(Len(passages) - 1) : passages[k].page <= passages[k + 1].page
          /\ pc = "done" =>
                \A p \in 1..Len(doc) :
                    [k \in 1..Len(IsOnPage(p)) |-> IsOnPage(p)[k].text] = RefPageTexts(p)
    /\ (lower_tag(file_type) \in {"txt", "docx"}) =>
          \A k \in 1..Len(passages) : passages[k].page = None

\* After an empty first page, the blocks of pages 2 and 3 carry 2 and 3.
C9_Witness ==
    /\ lower_tag(file_type) = "pdf"
    /\ pc = "done"
    /\ Len(doc) = 3
    /\ Len(result) = 2
    /\ result[1].page = 2
    /\ result[2].page = 3

\* ---- upload ----
\* The upload just answered saved a file, and parse_document raised or
\* returned no passage.
UploadParseGaveNothing ==
    /\ up_pc = "responded"
    /\ out_path # <<>>
    /\ (pc = "raised" \/ (pc = "done" /\ result = <<>>))

\* C10: when parse_document raises or returns no passage, upload_document
\* removes the file it saved and answers a client error without passages; a
\* saved file stays only for an upload answered with success and passages
\* (once the server has started, any number of uploads being in flight).
C10_AllOrNothing ==
    /\ UploadParseGaveNothing =>
          /\ responses[Len(responses)].status = 400
          /\ "passages" \notin DOMAIN responses[Len(responses)]
          /\ \A f \in uploads : f.path # out_path
    /\ up_pc # "startup" =>
          \A f \in uploads :
             \/ (up_pc \in {"saved", "parsing"} /\ f.path = out_path)
             \/ \E n \in 1..Len(responses) :
                   /\ responses[n].status = 200
                   /\ responses[n].file_id = f.path[1]
                   /\ responses[n].passages # <<>>

\* After a successful upload, a second upload whose parse raised has left
\* only the first file.
C10_Witness ==
    /\ UploadParseGaveNothing
    /\ pc = "raised"
    /\ Len(responses) = 2
    /\ responses[1].status = 200
    /\ responses[2].status = 400
    /\ Cardinality(uploads) = 1
    /\ \A f \in uploads : f.path[1] = responses[1].file_id

\* ---- reentrancy ----
\* A passage list without the ids.
RefContent(ps) ==
    [k \in 1..Len(ps) |-> [text |-> ps[k].text, style |-> ps[k].style, page |-> ps[k].page]]

RECURSIVE RefAllSizes(_, _)
RefAllSizes(d, p) ==
    IF p > Len(d) THEN <<>> ELSE PageFontSizes(d[p]) \o RefAllSizes(d, p + 1)

RECURSIVE RefAlonePdfBlocks(_, _, _, _)
RefAlonePdfBlocks(blocks, normal, page, emitted) ==
    IF blocks = <<>> THEN emitted
    ELSE RefAlonePdfBlocks(Tail(blocks), normal, page,
                           PdfBlock(Head(blocks), normal, page, emitted, 0))

RECURSIVE RefAlonePdfPages(_, _, _, _)
RefAlonePdfPages(d, normal, p, emitted) ==
    IF p > Len(d) THEN emitted
    ELSE RefAlonePdfPages(d, normal, p + 1, RefAlonePdfBlocks(d[p], normal, p, emitted))

RECURSIVE RefAloneTxt(_, _, _)
RefAloneTxt(paras, k, emitted) ==
    IF k >= Len(paras) THEN emitted
    ELSE RefAloneTxt(paras, k + 1,
                     Append(emitted,
                            Passage(0, paras[k + 1], None,
                                    TxtStyle(k, paras[k + 1], emitted))))

RECURSIVE RefAloneDocx(_, _)
RefAloneDocx(paras, emitted) ==
    IF paras = <<>> THEN emitted
    ELSE RefAloneDocx(Tail(paras), DocxPara(Head(paras), emitted, 0))

RefRaised == [raised |-> TRUE, content |-> <<>>]
RefReturned(ps) == [raised |-> FALSE, content |-> RefContent(ps)]

\* What parse_document(f, type) gives when it runs from its first step to
\* its last with no other invocation in progress.
RefAlone(type, f) ==
    CASE lower_tag(type) = "txt" ->
            RefReturned(RefAloneTxt(_split_into_paragraphs(read_text(f.bytes)), 0, <<>>))
      [] lower_tag(type) = "pdf" ->
            IF f.pdf.valid
            THEN RefReturned(RefAlonePdfPages(f.pdf.content,
                                 NormalSize(RefAllSizes(f.pdf.content, 1)), 1, <<>>))
            ELSE RefRaised
      [] lower_tag(type) = "docx" ->
            IF f.docx.valid THEN RefReturned(RefAloneDocx(f.docx.content, <<>>))
            ELSE RefRaised
      [] OTHER -> RefRaised

\* What the invocation of frame fr gave.
RefOutcome(fr) ==
    IF fr.pc = "done" THEN RefReturned(fr.result) ELSE RefRaised

\* C11: of two invocations of parse_document whose steps interleave in any
\* order, each returns the passages (text, style, page, order) it returns
\* when run alone, and raises when it raises alone.
C11_Reentrant ==
    \A fr \in {Frame} \cup {suspended[k] : k \in 1..Len(suspended)} :
        Finished(fr) => RefOutcome(fr) = RefAlone(fr.file_type, fr.file)

\* Two PDF extractions with different baseline sizes have both returned, the
\* passages of one created between the two passages of the other.
C11_Witness ==
    /\ Len(suspended) = 1
    /\ pc = "done" /\ suspended[1].pc = "done"
    /\ file = PdfTitleBody /\ suspended[1].file = PdfLargeBody
    /\ normal_size # suspended[1].normal_size
    /\ Len(result) = 2 /\ Len(suspended[1].result) = 2
    /\ result[1].id < suspended[1].result[1].id
    /\ suspended[1].result[1].id < result[2].id
    /\ result[2].id < suspended[1].result[2].id

\* ---- PDF author ----
\* The block just retained is short and heading-like: size_ratio < 1.5, bold
\* or size_ratio >= 1.2, fewer than 100 characters.
RefHeadingLike ==
    /\ ~RefRatioAtLeast(doc[page_num][block_num], 3, 2)
    /\ RefBlockBold(doc[page_num][block_num])
          \/ RefRatioAtLeast(doc[page_num][block_num], 6, 5)
    /\ Len(passages[Len(passages)].text) < 100

\* C12: a short heading-like PDF block is an author if and only if it is on
\* page 1 and the passage emitted just before it is a title, and a heading
\* otherwise; so no passage of page 2 or later and no first passage is an
\* author.
C12_PdfAuthor ==
    /\ (PdfJustRetained /\ RefHeadingLike) =>
          passages[Len(passages)].style =
              IF page_num = 1 /\ Len(passages) >= 2
                    /\ passages[Len(passages) - 1].style = "title"
              THEN "author" ELSE "heading"
    /\ (lower_tag(file_type) = "pdf") =>
          \A k \in 1..Len(passages) :
              passages[k].style = "author" =>
                  /\ passages[k].page = 1
                  /\ k >= 2
                  /\ passages[k - 1].style = "title"

\* A short bold block that opens page 2 right after the title of page 1 has
\* become a heading.
C12_Witness ==
    /\ PdfJustRetained /\ RefHeadingLike
    /\ page_num = 2
    /\ Len(passages) = 2
    /\ passages[1].style = "title" /\ passages[1].page = 1
    /\ passages[2].style = "heading"

\* ---- PDF baseline size ----
\* All spans of the text blocks of document d, from page p on.
RECURSIVE RefDocSpans(_, _)
RefDocSpans(d, p) ==
    IF p > Len(d) THEN <<>>
    ELSE LET text(b) == b.type = 0
         IN  Concat([b \in 1..Len(SelectSeq(d[p], text)) |->
                        Concat(SelectSeq(d[p], text)[b].lines)])
                 \o RefDocSpans(d, p + 1)

\* The length of t without its leading and trailing whitespace.
RefStrippedLen(t) ==
    LET inner == {k \in 1..Len(t) : t[k] \notin RefWhitespace}
    IN  IF inner = {} THEN 0 ELSE SetMax(inner) - SetMin(inner) + 1

\* How often size v occurs when every span contributes its size once per
\* character of its text, stripped or whole.
RECURSIVE RefOccurrences(_, _, _)
RefOccurrences(spans, v, stripped) ==
    IF spans = <<>> THEN 0
    ELSE (IF Head(spans).size # v THEN 0
          ELSE IF stripped THEN RefStrippedLen(Head(spans).text)
          ELSE Len(Head(spans).text))
            + RefOccurrences(Tail(spans), v, stripped)

\* v is a most frequent size of the document, or 12 when no size occurs.
RefIsMode(v, stripped) ==
    LET spans == RefDocSpans(doc, 1)
        sizes == {spans[k].size : k \in 1..Len(spans)}
    IN  IF \A u \in sizes : RefOccurrences(spans, u, stripped) = 0
        THEN v = 12
        ELSE /\ v \in sizes
             /\ \A u \in sizes :
                   RefOccurrences(spans, u, stripped) <= RefOccurrences(spans, v, stripped)

PdfInPass2 ==
    lower_tag(file_type) = "pdf" /\ pc \in {"pdf_pass2", "done"}

\* C13, as stated: all through pass 2 the normal size is the mode of the
\* sizes, each span counted once per character of its text, or 12 when the
\* document has no text.
C13_ModePerCharacter ==
    PdfInPass2 => RefIsMode(normal_size, FALSE)

\* C13, amended: all through pass 2 the normal size is a most frequent size,
\* each span of a text block counted once per character of its text
\* stripped of leading and trailing whitespace, or 12 when no span holds a
\* character other than whitespace; it is set before pass 2 and pass 2
\* leaves it as it is.
C13_ModePerStrippedCharacter ==
    PdfInPass2 => RefIsMode(normal_size, TRUE)

\* Pass 2 has handled a block of a document whose most frequent size differs
\* when whitespace around the span texts is counted.
C13_Witness ==
    /\ PdfInPass2
    /\ pc = "pdf_pass2"
    /\ block_num >= 1
    /\ RefIsMode(normal_size, TRUE)
    /\ ~RefIsMode(normal_size, FALSE)

\* ---- DOCX inclusion ----
\* t with its words joined by single spaces.
RefNormalize(t) == RefJoinWords(t, SortedSeq(RefWordStarts(t)))

\* The step of parse_docx over one paragraph that is not empty.
DocxStepsOverText ==
    /\ lower_tag(file_type) = "docx"
    /\ pc = "docx_loop"
    /\ i' = i + 1
    /\ RefWordStarts(docx_paragraphs[i'].text) # {}

\* C14: parse_docx emits a non-empty paragraph if and only if its normalized
\* length exceeds 5 or its style is title, heading or author; an emitted
\* passage of style paragraph is longer than 5; a dropped paragraph leaves
\* the passages emitted so far as they were.
C14_DocxInclusion ==
    [][DocxStepsOverText =>
          LET para  == docx_paragraphs[i']
              text  == RefNormalize(para.text)
              style == RefDocxStyle(IF para.has_style THEN para.style_name ELSE <<>>,
                                    Len(text), Len(passages))
          IN  IF Len(text) > 5 \/ style \in {"title", "heading", "author"}
              THEN /\ Len(passages') = Len(passages) + 1
                   /\ SubSeq(passages', 1, Len(passages)) = passages
                   /\ passages'[Len(passages')].text = text
                   /\ passages'[Len(passages')].style = "paragraph" => Len(text) > 5
              ELSE passages' = passages]_vars

\* A title of one character was kept, a plain paragraph of 5 characters was
\* dropped, and the Subtitle after it is a heading.
C14_Witness ==
    /\ lower_tag(file_type) = "docx"
    /\ pc = "docx_loop"
    /\ i = 3
    /\ Len(RefNormalize(docx_paragraphs[1].text)) = 1
    /\ Len(RefNormalize(docx_paragraphs[2].text)) = 5
    /\ docx_paragraphs[2].style_name = <<"N", "o", "r", "m", "a", "l">>
    /\ Len(passages) = 2
    /\ passages[1].style = "title"
    /\ passages[2].style = "heading"

\* ---- upload pre-checks ----
RefMissingName(req) == Len(req.filename) = 0
RefUnsupported(req) == RefDetect(req.filename, req.content_type) = None
RefEmpty(req) == req.data.len = 0
RefTooLarge(req) == req.data.len > 50 * 1024 * 1024
RefBadPdf(req) ==
    /\ RefDetect(req.filename, req.content_type) = "pdf"
    /\ \/ Len(req.data.file.bytes) < 4
       \/ SubSeq(req.data.file.bytes, 1, 4) # <<"%", "P", "D", "F">>

\* Some pre-check of upload_document fails on req.
RefRejected(req) ==
    \/ RefMissingName(req) \/ RefUnsupported(req) \/ RefEmpty(req)
    \/ RefTooLarge(req) \/ RefBadPdf(req)

\* C15: upload_document handles a request that fails a pre-check (filename
\* missing, type unsupported, data empty, data too large, PDF data not
\* starting with %PDF) without writing a file and without invoking
\* parse_document: every step of its handler leaves the uploads directory
\* and the extractor as they are, and the handler ends with a client error,
\* at once or after its wait for the data.  A file is written and
\* parse_document invoked only for a request that passes all the checks.
C15_ChecksBeforeParse ==
    [][/\ (up_pc = "upload_document" /\ RefRejected(request)) =>
              /\ uploads' = uploads
              /\ out_path' = <<>>
              /\ pc' = pc
              /\ \/ /\ up_pc' = "responded"
                    /\ responses'[Len(responses')].status = 400
                 \/ /\ up_pc' = "reading"
                    /\ responses' = responses
                    /\ reading'[Len(reading')].request = request
       /\ (up_pc = "read" /\ RefRejected(request)) =>
              /\ uploads' = uploads
              /\ out_path' = <<>>
              /\ pc' = pc
              /\ up_pc' = "responded"
              /\ responses'[Len(responses')].status = 400
       /\ Cardinality(uploads') > Cardinality(uploads) =>
              (up_pc = "read" /\ ~RefRejected(request))
       /\ pc' = "parse_document" =>
              /\ up_pc = "saved"
              /\ ~RefRejected(request)
              /\ \E f \in uploads : f.path = out_path
      ]_vars

\* After a successful upload, a file named .PDF whose data does not start
\* with %PDF has been refused: only the first upload's file is on disk.
C15_Witness ==
    /\ up_pc = "responded"
    /\ RefBadPdf(request)
    /\ ~RefMissingName(request) /\ ~RefEmpty(request) /\ ~RefTooLarge(request)
    /\ Len(responses) = 2
    /\ responses[1].status = 200
    /\ responses[2].status = 400
    /\ Cardinality(uploads) = 1
    /\ out_path = <<>>

\* ---- DOCX author ----
\* The paragraphs parse_docx has gone through that are not empty.
RefSeenWithText ==
    {k \in 1..i : RefWordStarts(docx_paragraphs[k].text) # {}}

\* C16: in parse_docx only the first emitted passage can be an author, and
\* the first non-empty paragraph of a document is always emitted.
C16_DocxAuthorFirst ==
    (lower_tag(file_type) = "docx" /\ pc \in {"docx_loop", "done"}) =>
        /\ \A k \in 1..Len(passages) : passages[k].style = "author" => k = 1
        /\ RefSeenWithText # {} =>
              /\ Len(passages) >= 1
              /\ passages[1].text =
                    RefNormalize(docx_paragraphs[SetMin(RefSeenWithText)].text)

\* After a whitespace-only paragraph, a plain first paragraph of 5 characters
\* was emitted as author, and a later Subtitle is not an author.
C16_Witness ==
    /\ lower_tag(file_type) = "docx"
    /\ pc = "done"
    /\ Len(docx_paragraphs) = 3
    /\ RefWordStarts(docx_paragraphs[1].text) = {}
    /\ docx_paragraphs[2].style_name = <<"N", "o", "r", "m", "a", "l">>
    /\ Len(RefNormalize(docx_paragraphs[2].text)) = 5
    /\ docx_paragraphs[3].style_name = <<"S", "u", "b", "t", "i", "t", "l", "e">>
    /\ Len(result) = 2
    /\ result[1].style = "author"
    /\ result[2].style = "heading"

=============================================================================
